---- MODULE Spec2Model ----
(***************************************************************************)
(* Model of zyngine/zynthian_controller.py: one zynthian_controller object *)
(* (value model, label/tick tables, nudge, toggle, sinks) and its MIDI CC  *)
(* mode detector and dispatcher.                                           *)
(*                                                                         *)
(* Numbers.  Python numbers are modelled in fixed point: a number x is the *)
(* integer x * Den.  Den is a multiple of 127 (the divisor of the absolute *)
(* CC mapping) and of 100 (the nudge factors), so the values the chosen    *)
(* configurations produce are exact; a quotient that leaves the grid is    *)
(* truncated.  Python None is the empty tuple, a present value x is <<x>>. *)
(* Time is counted in units of 0.2 s.                                      *)
(***************************************************************************)
EXTENDS Integers, Sequences, FiniteSets, TLC

VARIABLES
    zctrl,      \* the fields of the zynthian_controller object
    elapsed,    \* monotonic() - zctrl.midi_cc_mode_detecting_ts, in 0.2 s
    last,       \* the last call made on the object: see Call
    fed,        \* the number of bytes of a stream fed to the object so
                \* far (FeedStream, FeedRelative2, Observe)
    bindings,   \* two controller objects built from the same options, and
                \* each of them as its own calls alone leave it
                \* (BindingCall); zctrl is then the object the last call
                \* was made on
    run         \* what the bytes observed so far (Observe) end with: the
                \* band of the last byte, the number of consecutive bytes
                \* of that band, and the number of consecutive bytes that
                \* came within the timeout of the byte before

vars == <<zctrl, elapsed, last, fed, bindings, run>>

\* ---------------------------------------------------------------- numbers
Den == 127 * 100

None == <<>>
Some(x) == <<x>>
Get(o) == o[1]

Num(n) == n * Den

\* int(x): truncation toward zero
int(x) == IF x >= 0 THEN (x \div Den) * Den ELSE -(((-x) \div Den) * Den)

\* x / d for a positive integer d, truncated to the grid
DivT(x, d) == IF x >= 0 THEN x \div d ELSE -((-x) \div d)

abs(x) == IF x >= 0 THEN x ELSE -x

\* An argument of set_value: a number, a label string or None
ArgNum(n) == [t |-> "num", n |-> n, s |-> ""]
ArgStr(s) == [t |-> "str", n |-> 0, s |-> s]
ArgNone == [t |-> "none", n |-> 0, s |-> ""]
ArgOf(o) == IF o = None THEN ArgNone ELSE ArgNum(Get(o))

\* -------------------------------------------------------------- constants
MIDI_CC_MODE_DETECT_TIMEOUT == 1
MIDI_CC_MODE_DETECT_STEPS == 8

\* ------------------------------------------------------------ bounds
MaxElapsed == 2
MaxNudge == 2
MaxFed == 17
MaxBytes == 11
MaxStep == 10

\* ------------------------------------------------------------ object
\* zynthian_controller.reset, before options are applied.  engine is TRUE
\* when an engine object is attached.
reset(engine) ==
    [ engine |-> engine,
      readonly |-> FALSE,
      value |-> Some(0),
      value_default |-> None,
      value_min |-> None,
      value_mid |-> None,
      value_max |-> None,
      value_range |-> 0,
      nudge_factor |-> None,
      nudge_factor_fine |-> None,
      labels |-> <<>>,
      ticks |-> <<>>,
      range_reversed |-> FALSE,
      is_toggle |-> FALSE,
      is_integer |-> TRUE,
      is_logarithmic |-> FALSE,
      is_dirty |-> TRUE,
      midi_chan |-> None,
      midi_cc |-> None,
      midi_feedback |-> None,
      midi_cc_momentary_switch |-> FALSE,
      midi_cc_mode |-> -1,
      midi_cc_mode_detecting |-> 0,
      midi_cc_mode_detecting_count |-> 0,
      midi_cc_mode_detecting_zero |-> 0,
      osc_path |-> None,
      label2value |-> None ]

\* The options dictionary: a key that is absent is None.  value_max stands
\* for a numeric value_max; is_float says it was given as a Python float.
NoOptions ==
    [ value |-> None, value_default |-> None, value_min |-> None,
      value_max |-> None, is_float |-> FALSE, labels |-> None,
      ticks |-> None, is_toggle |-> None, is_integer |-> None,
      nudge_factor |-> None, is_logarithmic |-> None, midi_chan |-> None,
      midi_cc |-> None, osc_path |-> None,
      midi_cc_momentary_switch |-> None ]

\* label2value[str(label)]: the dictionary is filled in index order, so a
\* repeated label keeps the tick of its last occurrence.
RECURSIVE LastIndexOf(_, _, _)
LastIndexOf(seq, x, i) ==
    IF i = 0 THEN 0
    ELSE IF seq[i] = x THEN i
    ELSE LastIndexOf(seq, x, i - 1)

get_label2value(self, label) ==
    IF self.ticks # <<>> /\ self.label2value # None
    THEN LET i == LastIndexOf(self.labels, label, Len(self.labels))
         IN IF i = 0 \/ i > Len(self.ticks) THEN None
            ELSE Some(self.ticks[i])
    ELSE None

\* A faulty variant of _set_value: a toggle target equal to the midpoint
\* snaps to value_min
_set_value_snaps_at_mid(self, val) ==
    IF val.t = "str"
    THEN [self |-> [self EXCEPT !.value = get_label2value(self, val.s)],
          raised |-> FALSE]
    ELSE IF self.is_toggle
    THEN IF val.t = "num" /\ (val.n = Get(self.value_min)
                               \/ val.n = Get(self.value_max))
         THEN [self |-> [self EXCEPT !.value =
                            Some(IF self.is_integer THEN int(val.n) ELSE val.n)],
               raised |-> FALSE]
         ELSE IF val.t = "none"
         THEN [self |-> self, raised |-> TRUE]
         ELSE IF val.n <= Get(self.value_mid)
         THEN [self |-> [self EXCEPT !.value = self.value_min], raised |-> FALSE]
         ELSE [self |-> [self EXCEPT !.value = self.value_max], raised |-> FALSE]
    ELSE IF val.t = "none"
    THEN [self |-> self, raised |-> TRUE]
    ELSE LET v == IF self.ticks # <<>> THEN val.n
                  ELSE IF self.is_integer THEN int(val.n)
                  ELSE val.n
         IN [self |-> [self EXCEPT !.value =
                          IF v > Get(self.value_max) THEN self.value_max
                          ELSE IF v < Get(self.value_min) THEN self.value_min
                          ELSE Some(v)],
             raised |-> FALSE]

\* zynthian_controller._set_value.  The result is [self, raised]: comparing
\* None with a number raises TypeError and leaves the object as it was.
_set_value(self, val) ==
    IF val.t = "str"
    THEN [self |-> [self EXCEPT !.value = get_label2value(self, val.s)],
          raised |-> FALSE]
    ELSE IF self.is_toggle
    THEN IF val.t = "num" /\ (val.n = Get(self.value_min)
                               \/ val.n = Get(self.value_max))
         THEN [self |-> [self EXCEPT !.value =
                            Some(IF self.is_integer THEN int(val.n) ELSE val.n)],
               raised |-> FALSE]
         ELSE IF val.t = "none"
         THEN [self |-> self, raised |-> TRUE]
         ELSE IF val.n < Get(self.value_mid)
         THEN [self |-> [self EXCEPT !.value = self.value_min], raised |-> FALSE]
         ELSE [self |-> [self EXCEPT !.value = self.value_max], raised |-> FALSE]
    ELSE IF val.t = "none"
    THEN [self |-> self, raised |-> TRUE]
    ELSE LET v == IF self.ticks # <<>> THEN val.n
                  ELSE IF self.is_integer THEN int(val.n)
                  ELSE val.n
         IN [self |-> [self EXCEPT !.value =
                          IF v > Get(self.value_max) THEN self.value_max
                          ELSE IF v < Get(self.value_min) THEN self.value_min
                          ELSE Some(v)],
             raised |-> FALSE]

\* ---------------------------------------------------------- configuration
Min(a, b) == IF a <= b THEN a ELSE b

OrElse(o, d) == IF o = None THEN d ELSE o

\* The ticks _configure generates from n labels over [value_min, value_max]
GenTicks(self, n, vmin, vmax) ==
    IF n = 1 THEN <<vmin>>
    ELSE [i \in 1..n |->
            IF self.is_integer
            THEN vmin + int(DivT((i - 1) * (vmax - vmin), n - 1))
            ELSE vmin + DivT((i - 1) * (vmax - vmin), n - 1)]

\* _configure, lines 188-194: two labels make a toggle, whose bounds default
\* to 0 and 127 when no ticks are given
configure_toggle(self) ==
    IF Len(self.labels) = 2
    THEN [self EXCEPT
            !.is_toggle = TRUE,
            !.value_min = IF self.ticks = <<>> THEN OrElse(@, Some(0)) ELSE @,
            !.value_max = IF self.ticks = <<>> THEN OrElse(@, Some(Num(127)))
                          ELSE @]
    ELSE self

\* A faulty variant of configure_ticks: an unset value_max defaults to 127
\* whatever the number of labels
configure_ticks_default_127(self) ==
    IF self.ticks = <<>>
    THEN [self EXCEPT
            !.value_min = OrElse(@, Some(0)),
            !.value_max = IF Len(self.labels) = 1
                          THEN OrElse(self.value_min, Some(0))
                          ELSE OrElse(@, Some(Num(127))),
            !.ticks = GenTicks(self, Len(self.labels),
                               Get(OrElse(self.value_min, Some(0))),
                               Get(OrElse(self.value_max, Some(Num(127)))))]
    ELSE self

\* _configure, lines 197-216: ticks are generated when none are given
configure_ticks(self) ==
    IF self.ticks = <<>>
    THEN [self EXCEPT
            !.value_min = OrElse(@, Some(0)),
            !.value_max = IF Len(self.labels) = 1
                          THEN OrElse(self.value_min, Some(0))
                          ELSE OrElse(@, Some(Num(Len(self.labels) - 1))),
            !.ticks = GenTicks(self, Len(self.labels),
                               Get(OrElse(self.value_min, Some(0))),
                               Get(OrElse(self.value_max,
                                          Some(Num(Len(self.labels) - 1)))))]
    ELSE self

\* _configure, lines 219-228: the bounds and the orientation of the table
configure_min_max(self) ==
    IF self.ticks[1] <= self.ticks[Len(self.ticks)]
    THEN [self EXCEPT !.value_min = OrElse(@, Some(self.ticks[1])),
                      !.value_max = OrElse(@, Some(self.ticks[Len(self.ticks)])),
                      !.range_reversed = FALSE]
    ELSE [self EXCEPT !.value_min = Some(self.ticks[Len(self.ticks)]),
                      !.value_max = Some(self.ticks[1]),
                      !.range_reversed = TRUE]

\* _configure, lines 186-235: the label and tick table.  The dictionary
\* loop (lines 231-235) indexes ticks by the positions of labels, so it
\* raises IndexError when there are more labels than ticks.
configure_dictionaries(self) ==
    [self |-> [self EXCEPT !.label2value = Some(TRUE)],
     raised |-> Len(self.labels) > Len(self.ticks)]

_configure_labels(self) ==
    IF self.labels = <<>> THEN [self |-> self, raised |-> FALSE]
    ELSE configure_dictionaries(
             configure_min_max(configure_ticks(configure_toggle(self))))

\* zynthian_controller._configure, lines 254-279: the nudge factors
_configure_nudge(self) ==
    IF self.nudge_factor = None \/ self.nudge_factor = Some(0)
    THEN IF self.is_logarithmic
         THEN [self EXCEPT !.nudge_factor = Some(Den \div 100),
                           !.nudge_factor_fine = Some((3 * (Den \div 100)) \div 1000)]
         ELSE IF ~self.is_integer /\ ~self.is_toggle
         THEN IF self.value_range <= Num(1)
              THEN [self EXCEPT !.nudge_factor = Some(Den \div 100),
                                !.nudge_factor_fine = Some(Den \div 1000)]
              ELSE IF self.value_range <= Num(10)
              THEN [self EXCEPT !.nudge_factor = Some(Den \div 10),
                                !.nudge_factor_fine = Some(Den \div 100)]
              ELSE IF self.value_range <= Num(100)
              THEN [self EXCEPT !.nudge_factor = Some(Num(1)),
                                !.nudge_factor_fine = Some(Den \div 10)]
              ELSE IF self.value_range <= Num(1000)
              THEN [self EXCEPT !.nudge_factor = Some(self.value_range \div 200),
                                !.nudge_factor_fine = Some(Den \div 10)]
              ELSE [self EXCEPT !.nudge_factor = Some(self.value_range \div 200),
                                !.nudge_factor_fine = Some(Num(1))]
         ELSE [self EXCEPT !.nudge_factor = Some(Num(1)),
                           !.nudge_factor_fine = Some(Num(1))]
    ELSE IF self.nudge_factor_fine = None \/ self.nudge_factor_fine = Some(0)
    THEN [self EXCEPT !.nudge_factor_fine = Some(Get(self.nudge_factor) \div 10)]
    ELSE self

\* _configure, lines 238-248: the default bounds, the span and the midpoint
configure_range(self) ==
    [self EXCEPT !.value_min = OrElse(@, Some(0)),
                 !.value_max = OrElse(@, Some(Num(127))),
                 !.value_range = Get(OrElse(self.value_max, Some(Num(127))))
                                 - Get(OrElse(self.value_min, Some(0)))]

configure_mid(self) ==
    IF self.value_mid = None
    THEN [self EXCEPT !.value_mid =
            IF self.is_integer
            THEN Some(Get(self.value_min) + int(DivT(self.value_range, 2)))
            ELSE Some(Get(self.value_min) + DivT(self.value_range, 2))]
    ELSE self

\* _configure, lines 251-252 and 283-284: the default value and the MIDI
\* feedback address
configure_default(self) ==
    [self EXCEPT !.value_default = OrElse(@, self.value)]

configure_feedback(self) ==
    IF self.midi_feedback = None /\ self.midi_chan # None /\ self.midi_cc # None
    THEN [self EXCEPT !.midi_feedback =
                          Some(<<Get(self.midi_chan), Get(self.midi_cc)>>)]
    ELSE self

\* _configure, lines 250-284, once the bounds are known
configure_value(self) ==
    IF _set_value(self, ArgOf(self.value)).raised
    THEN [self |-> self, raised |-> TRUE]
    ELSE [self |-> configure_feedback(_configure_nudge(configure_default(
                       _set_value(self, ArgOf(self.value)).self))),
          raised |-> FALSE]

\* zynthian_controller._configure.  The result is [self, raised]; what was
\* assigned before an exception stays assigned.
_configure(self) ==
    IF _configure_labels(self).raised THEN _configure_labels(self)
    ELSE configure_value(configure_mid(configure_range(
             _configure_labels(self).self)))

\* zynthian_controller.set_options: every key present in the dictionary
\* overwrites its field, then the object is reconfigured.
set_options(self, options) ==
    _configure(
              [self EXCEPT
                 !.value = IF options.value = None THEN @ ELSE options.value,
                 !.value_default = OrElse(options.value_default, @),
                 !.value_min = OrElse(options.value_min, @),
                 !.value_max = OrElse(options.value_max, @),
                 !.labels = IF options.labels = None THEN @ ELSE Get(options.labels),
                 !.ticks = IF options.ticks = None THEN @ ELSE Get(options.ticks),
                 !.is_toggle = IF options.is_toggle = None THEN @
                               ELSE Get(options.is_toggle),
                 !.midi_cc_momentary_switch =
                     IF options.midi_cc_momentary_switch = None THEN @
                     ELSE Get(options.midi_cc_momentary_switch),
                 !.is_integer = IF options.is_integer # None
                                THEN Get(options.is_integer)
                                ELSE IF options.value_max # None
                                THEN ~options.is_float
                                ELSE @,
                 !.nudge_factor = OrElse(options.nudge_factor, @),
                 !.is_logarithmic = IF options.is_logarithmic = None THEN @
                                    ELSE Get(options.is_logarithmic),
                 !.midi_chan = OrElse(options.midi_chan, @),
                 !.midi_cc = OrElse(options.midi_cc, @),
                 !.osc_path = OrElse(options.osc_path, @)])

\* ------------------------------------------------------- logarithmic scale
\* math.pow(10, x) in fixed point, PowOne standing for 1.0, tabulated where
\* the code evaluates it: at x = val/127 for a CC byte val (absolute
\* dispatch) and at x = j/100, the grid of the logarithmic nudge factor
\* 0.01 (nudge).  Each entry is round(10^x * PowOne).
PowOne == 10 * 100

Pow10_127_Table ==
    <<
       1000, 1018, 1037, 1056, 1075, 1095, 1115, 1135, 1156, 1177,
       1199, 1221, 1243, 1266, 1289, 1313, 1337, 1361, 1386, 1411,
       1437, 1463, 1490, 1517, 1545, 1573, 1602, 1632, 1661, 1692,
       1723, 1754, 1786, 1819, 1852, 1886, 1921, 1956, 1992, 2028,
       2065, 2103, 2141, 2181, 2221, 2261, 2303, 2345, 2388, 2431,
       2476, 2521, 2567, 2614, 2662, 2711, 2760, 2811, 2862, 2915,
       2968, 3022, 3077, 3134, 3191, 3249, 3309, 3369, 3431, 3494,
       3558, 3623, 3689, 3757, 3825, 3895, 3967, 4039, 4113, 4188,
       4265, 4343, 4423, 4503, 4586, 4670, 4755, 4842, 4931, 5021,
       5113, 5206, 5302, 5399, 5497, 5598, 5700, 5805, 5911, 6019,
       6129, 6241, 6355, 6472, 6590, 6711, 6834, 6959, 7086, 7216,
       7348, 7482, 7619, 7758, 7900, 8045, 8192, 8342, 8494, 8650,
       8808, 8969, 9133, 9300, 9471, 9644, 9820, 10000 >>

Pow10_127(val) == Pow10_127_Table[val + 1]

Pow10_100_Table ==
    <<
       1000, 1023, 1047, 1072, 1096, 1122, 1148, 1175, 1202, 1230,
       1259, 1288, 1318, 1349, 1380, 1413, 1445, 1479, 1514, 1549,
       1585, 1622, 1660, 1698, 1738, 1778, 1820, 1862, 1905, 1950,
       1995, 2042, 2089, 2138, 2188, 2239, 2291, 2344, 2399, 2455,
       2512, 2570, 2630, 2692, 2754, 2818, 2884, 2951, 3020, 3090,
       3162, 3236, 3311, 3388, 3467, 3548, 3631, 3715, 3802, 3890,
       3981, 4074, 4169, 4266, 4365, 4467, 4571, 4677, 4786, 4898,
       5012, 5129, 5248, 5370, 5495, 5623, 5754, 5888, 6026, 6166,
       6310, 6457, 6607, 6761, 6918, 7079, 7244, 7413, 7586, 7762,
       7943, 8128, 8318, 8511, 8710, 8913, 9120, 9333, 9550, 9772,
       10000 >>

Pow10_100(j) == Pow10_100_Table[j + 1]

\* math.log10(x) on the grid of Pow10_100, for PowOne <= x: the j whose
\* power is nearest x, found by bisection
RECURSIVE Log10Floor(_, _, _)
Log10Floor(x, lo, hi) ==
    IF lo >= hi THEN lo
    ELSE IF Pow10_100((lo + hi + 1) \div 2) <= x
    THEN Log10Floor(x, (lo + hi + 1) \div 2, hi)
    ELSE Log10Floor(x, lo, (lo + hi + 1) \div 2 - 1)

Log10_100(x) ==
    IF Log10Floor(x, 0, 100) < 100
       /\ Pow10_100(Log10Floor(x, 0, 100) + 1) - x
            <= x - Pow10_100(Log10Floor(x, 0, 100))
    THEN Log10Floor(x, 0, 100) + 1
    ELSE Log10Floor(x, 0, 100)

\* ----------------------------------------------------------- wire values
\* int(a / b) for b # 0: the quotient truncated toward zero
Quot(a, b) ==
    IF (a >= 0) = (b > 0) THEN abs(a) \div abs(b) ELSE -(abs(a) \div abs(b))

\* int(127 * math.log10(x)) for x >= 1 in units of PowOne: the last byte
\* whose power of ten does not exceed x (127 from x = 10 on, where the
\* table ends)
Log10_127(x) ==
    CHOOSE b \in 0 .. 127 :
       /\ Pow10_127(b) <= x
       /\ (b = 127 \/ Pow10_127(b + 1) > x)

\* The argument of the logarithm in get_ctrl_midi_val, in units of PowOne
LogArgument(self) ==
    Quot((9 * Get(self.value)
            - (10 * Get(self.value_min) - Get(self.value_max))) * PowOne,
         self.value_range)

\* A faulty variant of get_ctrl_midi_val: the byte is rounded to the
\* nearest integer
get_ctrl_midi_val_rounds(self) ==
    IF self.value_range = 0 THEN 0
    ELSE IF self.value = None THEN 0
    ELSE IF self.is_logarithmic
    THEN IF LogArgument(self) <= 0 THEN 0
         ELSE IF LogArgument(self) >= PowOne
         THEN Log10_127(LogArgument(self))
         ELSE -Log10_127((PowOne * PowOne) \div LogArgument(self))
    ELSE Min(127, Quot(2 * 127 * (Get(self.value) - Get(self.value_min))
                          + self.value_range,
                       2 * self.value_range))

\* zynthian_controller.get_ctrl_midi_val: 0 on a range of zero; otherwise
\* the position of the value in the range, scaled to 127 and truncated
\* toward zero by int(), capped at 127 on the linear branch only.  Every
\* exception (a value of None, the logarithm of a number that is not
\* positive) is caught and gives 0.
get_ctrl_midi_val(self) ==
    IF self.value_range = 0 THEN 0
    ELSE IF self.value = None THEN 0
    ELSE IF self.is_logarithmic
    THEN IF LogArgument(self) <= 0 THEN 0
         ELSE IF LogArgument(self) >= PowOne
         THEN Log10_127(LogArgument(self))
         ELSE -Log10_127((PowOne * PowOne) \div LogArgument(self))
    ELSE Min(127, Quot(127 * (Get(self.value) - Get(self.value_min)),
                       self.value_range))

\* ------------------------------------------------------------------ sinks
\* What the environment does to one call: whether
\* engine.send_controller_value raises.
Envs == [engine_raises : BOOLEAN]

\* The environments in which the fallback send (liblo.send or send_midi_cc)
\* and lib_zyncore.ctrlfb_send_ccontrol_change may raise as well
Faults ==
    [engine_raises : BOOLEAN, fallback_raises : BOOLEAN,
     feedback_raises : BOOLEAN]

\* Whether a send raises; a send the environment does not name succeeds
Fault(env, send) == send \in DOMAIN env /\ env[send]

\* A try statement: what is raised inside it leaves it unless its handler
\* catches it
Escapes(raised, caught) == raised /\ ~caught

\* A call's outcome: the object after it, the sinks it invoked, whether an
\* exception left it, and what it returned ("None", "True" or "False").
Outcome(self, sent, raised, ret) ==
    [self |-> self, sent |-> sent, raised |-> raised, ret |-> ret]

\* zynthian_controller.get_ctrl_osc_val raises TypeError on a toggle whose
\* value is None (None > 0); the caller catches it before liblo.send.
get_ctrl_osc_val_raises(self) == self.is_toggle /\ self.value = None

\* zynthian_controller.set_value, lines 378-401: the sinks invoked once the
\* value has changed.
Sinks(self, send, env) ==
    (IF self.engine /\ send
     THEN {"engine"} \cup
          (IF env.engine_raises
           THEN IF self.osc_path # None
                THEN IF get_ctrl_osc_val_raises(self) THEN {} ELSE {"osc"}
                ELSE IF self.midi_cc # None /\ self.midi_cc # Some(0)
                THEN {"midi_cc"}
                ELSE {}
           ELSE {})
     ELSE {})
    \cup (IF self.midi_feedback # None THEN {"feedback"} ELSE {})

\* A faulty variant of send_midi_feedback_raises: the send is not inside a
\* try statement
send_midi_feedback_uncaught(self, env) == Fault(env, "feedback_raises")

\* send_midi_feedback, lines 424-432: whether an exception leaves it.  The
\* send is inside try ... except Exception; get_ctrl_midi_val catches its
\* own exceptions.
send_midi_feedback_raises(self, env) ==
    Escapes(Fault(env, "feedback_raises"), TRUE)

\* set_value, lines 383-394: whether an exception leaves the fallback send,
\* which is inside try ... except Exception
send_fallback_raises(self, env) ==
    Escapes(\/ Fault(env, "fallback_raises")
            \/ (self.osc_path # None /\ get_ctrl_osc_val_raises(self)),
            TRUE)

\* set_value, lines 378-394: whether an exception leaves the engine send,
\* which is inside try ... except: with the fallback send as its handler
send_controller_value_raises(self, env) ==
    \/ Escapes(Fault(env, "engine_raises"), TRUE)
    \/ (Fault(env, "engine_raises") /\ send_fallback_raises(self, env))

\* set_value, lines 377-401: whether an exception leaves the sends
SinksRaise(self, send, env) ==
    \/ (self.engine /\ send /\ send_controller_value_raises(self, env))
    \/ (self.midi_feedback # None /\ send_midi_feedback_raises(self, env))

\* Of the sinks a call invoked, those whose send raised
Failed(sent, env) ==
    {k \in sent :
        \/ k = "engine" /\ Fault(env, "engine_raises")
        \/ k \in {"osc", "midi_cc"} /\ Fault(env, "fallback_raises")
        \/ k = "feedback" /\ Fault(env, "feedback_raises")}

\* ----------------------------------------------------------- value model
\* Faulty variants of set_value, to compare the properties against: one
\* without the return on an unchanged value, one without the readonly guard
set_value_always_notifies(self, val, send, env) ==
    IF self.readonly THEN Outcome(self, {}, FALSE, "None")
    ELSE LET r == _set_value(self, val)
         IN IF r.raised THEN Outcome(self, {}, TRUE, "None")
            ELSE Outcome([r.self EXCEPT !.is_dirty = TRUE],
                         Sinks(r.self, send, env), FALSE, "None")

set_value_ignores_readonly(self, val, send, env) ==
    LET r == _set_value(self, val)
    IN IF r.raised THEN Outcome(self, {}, TRUE, "None")
       ELSE IF self.value = r.self.value
       THEN Outcome(r.self, {}, FALSE, "None")
       ELSE Outcome([r.self EXCEPT !.is_dirty = TRUE],
                    Sinks(r.self, send, env), FALSE, "None")

\* set_value, lines 376-403, once the value has changed: the sends, and
\* is_dirty unless an exception left them
notify(self, send, env) ==
    Outcome([self EXCEPT !.is_dirty = @ \/ ~SinksRaise(self, send, env)],
            Sinks(self, send, env), SinksRaise(self, send, env), "None")

\* zynthian_controller.set_value
set_value(self, val, send, env) ==
    IF self.readonly THEN Outcome(self, {}, FALSE, "None")
    ELSE LET r == _set_value(self, val)
         IN IF r.raised THEN Outcome(self, {}, TRUE, "None")
            ELSE IF self.value = r.self.value
            THEN Outcome(r.self, {}, FALSE, "None")
            ELSE notify(r.self, send, env)

\* Faulty variants of ScanTicks: one that moves on while the distance does
\* not increase, one whose loop stops before the last tick
RECURSIVE ScanTicks_ties_late(_, _, _, _)
ScanTicks_ties_late(ticks, val, index, i) ==
    IF i > Len(ticks) THEN index
    ELSE IF abs(ticks[i] - val) <= abs(ticks[index] - val)
    THEN ScanTicks_ties_late(ticks, val, i, i + 1)
    ELSE index

RECURSIVE ScanTicks_stops_short(_, _, _, _)
ScanTicks_stops_short(ticks, val, index, i) ==
    IF i > Len(ticks) - 1 THEN index
    ELSE IF abs(ticks[i] - val) < abs(ticks[index] - val)
    THEN ScanTicks_stops_short(ticks, val, i, i + 1)
    ELSE index

\* zynthian_controller.get_value2index for the current value: the 1-based
\* index of the tick the scan stops on.  The scan starts on the first tick
\* and moves on only while the distance strictly decreases.
RECURSIVE ScanTicks(_, _, _, _)
ScanTicks(ticks, val, index, i) ==
    IF i > Len(ticks) THEN index
    ELSE IF abs(ticks[i] - val) < abs(ticks[index] - val)
    THEN ScanTicks(ticks, val, i, i + 1)
    ELSE index

get_value2index(self) ==
    IF self.ticks # <<>> /\ self.value # None
    THEN Some(ScanTicks(self.ticks, Get(self.value), 1, 2))
    ELSE None

\* zynthian_controller.get_value2index for a given number
get_value2index_val(self, val) ==
    IF self.ticks # <<>> THEN Some(ScanTicks(self.ticks, val, 1, 2)) ELSE None

\* zynthian_controller.get_value2label for a given number: the label at its
\* index, or the number itself without ticks.  labels[i] raises IndexError
\* when there are fewer labels than the index.
get_value2label(self, val) ==
    IF get_value2index_val(self, val) = None
    THEN [ret |-> ArgNum(val), raised |-> FALSE]
    ELSE IF Get(get_value2index_val(self, val)) > Len(self.labels)
    THEN [ret |-> ArgNone, raised |-> TRUE]
    ELSE [ret |-> ArgStr(self.labels[Get(get_value2index_val(self, val))]),
          raised |-> FALSE]

\* zynthian_controller.nudge, lines 324-329: the step is taken on the
\* logarithmic curve; log_val and factor are in units of 1/Den, and set_value
\* is called without the caller's send.  math.log10 raises ValueError on an
\* argument that is not positive.
nudge_log(self, val, factor, env) ==
    LET x == DivT(9 * (Get(self.value) - Get(self.value_min)) * PowOne
                  + self.value_range * PowOne, self.value_range)
    IN IF x <= 0 THEN Outcome(self, {}, TRUE, "None")
       ELSE
       LET log_val == Log10_100(x) * (Den \div 100) + val * factor
           clamped == IF log_val > Den THEN Den
                      ELSE IF log_val < 0 THEN 0 ELSE log_val
           p == Pow10_100(clamped \div (Den \div 100))
       IN set_value(self,
                    ArgNum(Get(self.value_min)
                           + DivT(self.value_range * (p - PowOne), 9 * PowOne)),
                    TRUE, env)

\* zynthian_controller.nudge
nudge(self, val, send, fine, env) ==
    IF self.ticks # <<>>
    THEN LET i == get_value2index(self)
         IN IF i = None THEN Outcome(self, {}, TRUE, "None")
            ELSE LET j == Get(i) + val
                     index == IF j < 1 THEN 1
                              ELSE IF j > Len(self.ticks) THEN Len(self.ticks)
                              ELSE j
                     r == set_value(self, ArgNum(self.ticks[index]), send, env)
                 IN Outcome(r.self, r.sent, r.raised,
                            IF r.raised THEN "None" ELSE "True")
    ELSE LET factor == IF fine THEN self.nudge_factor_fine ELSE self.nudge_factor
         IN IF factor = None THEN Outcome(self, {}, FALSE, "False")
            ELSE IF self.value = None THEN Outcome(self, {}, TRUE, "None")
            ELSE IF self.is_logarithmic /\ self.value_range # 0
            THEN LET r == nudge_log(self, val, Get(factor), env)
                 IN Outcome(r.self, r.sent, r.raised,
                            IF r.raised THEN "None" ELSE "True")
            ELSE LET r == set_value(self,
                                    ArgNum(Get(self.value) + val * Get(factor)),
                                    send, env)
                 IN Outcome(r.self, r.sent, r.raised,
                            IF r.raised THEN "None" ELSE "True")

\* A faulty variant of toggle: the value is set to value_max whatever it is
toggle_sets_max(self, env) ==
    IF self.is_toggle
    THEN set_value(self, ArgOf(self.value_max), TRUE, env)
    ELSE Outcome(self, {}, FALSE, "None")

\* zynthian_controller.toggle
toggle(self, env) ==
    IF self.is_toggle
    THEN IF self.value = self.value_min
         THEN set_value(self, ArgOf(self.value_max), TRUE, env)
         ELSE set_value(self, ArgOf(self.value_min), TRUE, env)
    ELSE Outcome(self, {}, FALSE, "None")

\* zynthian_controller.reset_value
reset_value(self, env) == set_value(self, ArgOf(self.value_default), TRUE, env)

\* zynthian_controller.set_readonly
set_readonly(self, flag) ==
    IF flag # self.readonly
    THEN [self EXCEPT !.readonly = flag, !.is_dirty = TRUE]
    ELSE self

\* ---------------------------------------------------------- CC detection
\* The three relative conventions of midi_cc_mode_detect: the band of
\* bytes that makes a convention the candidate, its centre byte and the two
\* bytes next to the centre.
\* A faulty variant of InBand: the band of convention 1 starts one byte low
InBand_wide(m, val) ==
    CASE m = 1 -> 54 <= val /\ val <= 73
      [] m = 2 -> (0 <= val /\ val <= 6) \/ (122 <= val /\ val <= 127)
      [] m = 3 -> 7 <= val /\ val <= 24

InBand(m, val) ==
    CASE m = 1 -> 55 <= val /\ val <= 73
      [] m = 2 -> (0 <= val /\ val <= 6) \/ (122 <= val /\ val <= 127)
      [] m = 3 -> 7 <= val /\ val <= 24

Centre(m) == CASE m = 1 -> 64 [] m = 2 -> 0 [] m = 3 -> 16

Adjacent(m, val) ==
    CASE m = 1 -> val = 63 \/ val = 65
      [] m = 2 -> val = 1 \/ val = 127
      [] m = 3 -> val = 15 \/ val = 17

\* Faulty variants of detect_band: one whose third block commits the mode of
\* the second, one that commits in the call that takes the streak to the
\* threshold
detect_band_copy_paste(self, m, val) ==
    IF self.midi_cc_mode = m THEN self
    ELSE IF self.midi_cc_mode_detecting # m
    THEN [self EXCEPT !.midi_cc_mode_detecting = m,
                      !.midi_cc_mode_detecting_count = 0,
                      !.midi_cc_mode_detecting_zero =
                          IF val = Centre(m) THEN 1 ELSE 0]
    ELSE IF val = Centre(m) /\ self.midi_cc_mode_detecting_zero <= 0
    THEN IF self.midi_cc_mode_detecting_count >= MIDI_CC_MODE_DETECT_STEPS
         THEN [self EXCEPT !.midi_cc_mode = IF m = 3 THEN 2 ELSE m]
         ELSE [self EXCEPT !.midi_cc_mode_detecting_zero = 1,
                           !.midi_cc_mode_detecting_count = @ + 1]
    ELSE IF val # Centre(m) /\ self.midi_cc_mode_detecting_zero = 1
    THEN IF self.midi_cc_mode_detecting_count >= MIDI_CC_MODE_DETECT_STEPS
         THEN [self EXCEPT !.midi_cc_mode = IF m = 3 THEN 2 ELSE m]
         ELSE [self EXCEPT !.midi_cc_mode_detecting_zero = -1,
                           !.midi_cc_mode_detecting_count = @ + 1]
    ELSE IF self.midi_cc_mode_detecting_zero = 0
    THEN IF self.midi_cc_mode_detecting_count >= MIDI_CC_MODE_DETECT_STEPS
         THEN [self EXCEPT !.midi_cc_mode = IF m = 3 THEN 2 ELSE m]
         ELSE IF Adjacent(m, val)
         THEN [self EXCEPT !.midi_cc_mode_detecting_count = @ + 1]
         ELSE self
    ELSE [self EXCEPT !.midi_cc_mode_detecting_count = 0]

detect_band_eager(self, m, val) ==
    IF self.midi_cc_mode = m THEN self
    ELSE IF self.midi_cc_mode_detecting # m
    THEN [self EXCEPT !.midi_cc_mode_detecting = m,
                      !.midi_cc_mode_detecting_count = 0,
                      !.midi_cc_mode_detecting_zero =
                          IF val = Centre(m) THEN 1 ELSE 0]
    ELSE IF val = Centre(m) /\ self.midi_cc_mode_detecting_zero <= 0
    THEN IF self.midi_cc_mode_detecting_count >= MIDI_CC_MODE_DETECT_STEPS
         THEN [self EXCEPT !.midi_cc_mode = m]
         ELSE [self EXCEPT !.midi_cc_mode_detecting_zero = 1,
                           !.midi_cc_mode_detecting_count = @ + 1,
                           !.midi_cc_mode =
                               IF self.midi_cc_mode_detecting_count + 1
                                  >= MIDI_CC_MODE_DETECT_STEPS THEN m ELSE @]
    ELSE IF val # Centre(m) /\ self.midi_cc_mode_detecting_zero = 1
    THEN IF self.midi_cc_mode_detecting_count >= MIDI_CC_MODE_DETECT_STEPS
         THEN [self EXCEPT !.midi_cc_mode = m]
         ELSE [self EXCEPT !.midi_cc_mode_detecting_zero = -1,
                           !.midi_cc_mode_detecting_count = @ + 1,
                           !.midi_cc_mode =
                               IF self.midi_cc_mode_detecting_count + 1
                                  >= MIDI_CC_MODE_DETECT_STEPS THEN m ELSE @]
    ELSE IF self.midi_cc_mode_detecting_zero = 0
    THEN IF self.midi_cc_mode_detecting_count >= MIDI_CC_MODE_DETECT_STEPS
         THEN [self EXCEPT !.midi_cc_mode = m]
         ELSE IF Adjacent(m, val)
         THEN [self EXCEPT !.midi_cc_mode_detecting_count = @ + 1,
                           !.midi_cc_mode =
                               IF self.midi_cc_mode_detecting_count + 1
                                  >= MIDI_CC_MODE_DETECT_STEPS THEN m ELSE @]
         ELSE self
    ELSE [self EXCEPT !.midi_cc_mode_detecting_count = 0]

\* A faulty variant of detect_band: the byte that switches the candidate is
\* counted as the first observation of the streak
detect_band_counts_switch(self, m, val) ==
    IF self.midi_cc_mode = m THEN self
    ELSE IF self.midi_cc_mode_detecting # m
    THEN [self EXCEPT !.midi_cc_mode_detecting = m,
                      !.midi_cc_mode_detecting_count = 1,
                      !.midi_cc_mode_detecting_zero =
                          IF val = Centre(m) THEN 1 ELSE 0]
    ELSE IF val = Centre(m) /\ self.midi_cc_mode_detecting_zero <= 0
    THEN IF self.midi_cc_mode_detecting_count >= MIDI_CC_MODE_DETECT_STEPS
         THEN [self EXCEPT !.midi_cc_mode = m]
         ELSE [self EXCEPT !.midi_cc_mode_detecting_zero = 1,
                           !.midi_cc_mode_detecting_count = @ + 1]
    ELSE IF val # Centre(m) /\ self.midi_cc_mode_detecting_zero = 1
    THEN IF self.midi_cc_mode_detecting_count >= MIDI_CC_MODE_DETECT_STEPS
         THEN [self EXCEPT !.midi_cc_mode = m]
         ELSE [self EXCEPT !.midi_cc_mode_detecting_zero = -1,
                           !.midi_cc_mode_detecting_count = @ + 1]
    ELSE IF self.midi_cc_mode_detecting_zero = 0
    THEN IF self.midi_cc_mode_detecting_count >= MIDI_CC_MODE_DETECT_STEPS
         THEN [self EXCEPT !.midi_cc_mode = m]
         ELSE IF Adjacent(m, val)
         THEN [self EXCEPT !.midi_cc_mode_detecting_count = @ + 1]
         ELSE self
    ELSE [self EXCEPT !.midi_cc_mode_detecting_count = 0]

\* A faulty variant of detect_band: with the zero-crossing state unset, a
\* step that is not next to the centre drops the streak
detect_band_resets_interior(self, m, val) ==
    IF self.midi_cc_mode = m THEN self
    ELSE IF self.midi_cc_mode_detecting # m
    THEN [self EXCEPT !.midi_cc_mode_detecting = m,
                      !.midi_cc_mode_detecting_count = 0,
                      !.midi_cc_mode_detecting_zero =
                          IF val = Centre(m) THEN 1 ELSE 0]
    ELSE IF val = Centre(m) /\ self.midi_cc_mode_detecting_zero <= 0
    THEN IF self.midi_cc_mode_detecting_count >= MIDI_CC_MODE_DETECT_STEPS
         THEN [self EXCEPT !.midi_cc_mode = m]
         ELSE [self EXCEPT !.midi_cc_mode_detecting_zero = 1,
                           !.midi_cc_mode_detecting_count = @ + 1]
    ELSE IF val # Centre(m) /\ self.midi_cc_mode_detecting_zero = 1
    THEN IF self.midi_cc_mode_detecting_count >= MIDI_CC_MODE_DETECT_STEPS
         THEN [self EXCEPT !.midi_cc_mode = m]
         ELSE [self EXCEPT !.midi_cc_mode_detecting_zero = -1,
                           !.midi_cc_mode_detecting_count = @ + 1]
    ELSE IF self.midi_cc_mode_detecting_zero = 0
    THEN IF self.midi_cc_mode_detecting_count >= MIDI_CC_MODE_DETECT_STEPS
         THEN [self EXCEPT !.midi_cc_mode = m]
         ELSE IF Adjacent(m, val)
         THEN [self EXCEPT !.midi_cc_mode_detecting_count = @ + 1]
         ELSE [self EXCEPT !.midi_cc_mode_detecting_count = 0]
    ELSE [self EXCEPT !.midi_cc_mode_detecting_count = 0]

\* The block of midi_cc_mode_detect for convention m (lines 624-653,
\* 656-685, 688-717), entered with a byte of m's band.
detect_band(self, m, val) ==
    IF self.midi_cc_mode = m THEN self
    ELSE IF self.midi_cc_mode_detecting # m
    THEN [self EXCEPT !.midi_cc_mode_detecting = m,
                      !.midi_cc_mode_detecting_count = 0,
                      !.midi_cc_mode_detecting_zero =
                          IF val = Centre(m) THEN 1 ELSE 0]
    ELSE IF val = Centre(m) /\ self.midi_cc_mode_detecting_zero <= 0
    THEN IF self.midi_cc_mode_detecting_count >= MIDI_CC_MODE_DETECT_STEPS
         THEN [self EXCEPT !.midi_cc_mode = m]
         ELSE [self EXCEPT !.midi_cc_mode_detecting_zero = 1,
                           !.midi_cc_mode_detecting_count = @ + 1]
    ELSE IF val # Centre(m) /\ self.midi_cc_mode_detecting_zero = 1
    THEN IF self.midi_cc_mode_detecting_count >= MIDI_CC_MODE_DETECT_STEPS
         THEN [self EXCEPT !.midi_cc_mode = m]
         ELSE [self EXCEPT !.midi_cc_mode_detecting_zero = -1,
                           !.midi_cc_mode_detecting_count = @ + 1]
    ELSE IF self.midi_cc_mode_detecting_zero = 0
    THEN IF self.midi_cc_mode_detecting_count >= MIDI_CC_MODE_DETECT_STEPS
         THEN [self EXCEPT !.midi_cc_mode = m]
         ELSE IF Adjacent(m, val)
         THEN [self EXCEPT !.midi_cc_mode_detecting_count = @ + 1]
         ELSE self
    ELSE [self EXCEPT !.midi_cc_mode_detecting_count = 0]

\* A faulty variant of detect_timeout: a gap of exactly the timeout drops
\* the streak
detect_timeout_inclusive(self, gap) ==
    IF gap >= MIDI_CC_MODE_DETECT_TIMEOUT
    THEN [self EXCEPT !.midi_cc_mode_detecting_count = 0]
    ELSE self

\* midi_cc_mode_detect, lines 618-620: the streak is dropped when the byte
\* comes more than the timeout after the last observed one.
\* A faulty variant of detect_timeout: the streak outlives any gap
detect_timeout_keeps_streak(self, gap) == self

detect_timeout(self, gap) ==
    IF gap > MIDI_CC_MODE_DETECT_TIMEOUT
    THEN [self EXCEPT !.midi_cc_mode_detecting_count = 0]
    ELSE self

\* zynthian_controller.midi_cc_mode_detect; gap is monotonic() minus
\* midi_cc_mode_detecting_ts.  The caller records that the timestamp is set.
\* A faulty variant of midi_cc_mode_detect: a byte of no band commits
\* Absolute and leaves the candidate
midi_cc_mode_detect_keeps_candidate(self, val, gap) ==
    LET s == detect_timeout(self, gap)
    IN IF InBand(1, val) THEN detect_band(s, 1, val)
       ELSE IF InBand(2, val) THEN detect_band(s, 2, val)
       ELSE IF InBand(3, val) THEN detect_band(s, 3, val)
       ELSE [s EXCEPT !.midi_cc_mode = 0]

midi_cc_mode_detect(self, val, gap) ==
    LET s == detect_timeout(self, gap)
    IN IF InBand(1, val) THEN detect_band(s, 1, val)
       ELSE IF InBand(2, val) THEN detect_band(s, 2, val)
       ELSE IF InBand(3, val) THEN detect_band(s, 3, val)
       ELSE [s EXCEPT !.midi_cc_mode_detecting = 0, !.midi_cc_mode = 0]

\* zynthian_controller.midi_cc_mode_reset
midi_cc_mode_reset(self) == [self EXCEPT !.midi_cc_mode = -1]

\* zynthian_controller.midi_cc_mode_set
midi_cc_mode_set(self, cc_mode) == [self EXCEPT !.midi_cc_mode = cc_mode]

\* ------------------------------------------------------------ CC dispatch
\* A faulty variant of RelativeDelta: the upper half of the Relative2 bytes
\* is not taken as negative
RelativeDelta_unsigned(mode, val) ==
    CASE mode = 1 -> IF val = 64 THEN None ELSE Some(val - 64)
      [] mode = 2 -> IF val = 0 THEN None ELSE Some(val)
      [] mode = 3 -> IF val = 16 THEN None ELSE Some(val - 16)
      [] OTHER -> None

\* midi_control_change, lines 550-567: the signed step of a relative byte,
\* None for the centre byte
RelativeDelta(mode, val) ==
    CASE mode = 1 -> IF val = 64 THEN None ELSE Some(val - 64)
      [] mode = 2 -> IF val = 0 THEN None
                     ELSE IF val >= 64 THEN Some(val - 128) ELSE Some(val)
      [] mode = 3 -> IF val = 16 THEN None ELSE Some(val - 16)
      [] OTHER -> None

\* A faulty variant of dispatch_absolute: the byte is scaled by 128
dispatch_absolute_128(self, val, send, env) ==
    IF self.is_logarithmic
    THEN set_value(self, ArgNum(Get(self.value_min)
                                + DivT(self.value_range * (Pow10_127(val) - PowOne), 9 * PowOne)),
                   send, env)
    ELSE IF self.is_toggle
    THEN IF self.midi_cc_momentary_switch
         THEN IF val >= 64 THEN toggle(self, env)
              ELSE Outcome(self, {}, FALSE, "None")
         ELSE set_value(self, ArgOf(IF val >= 64 THEN self.value_max
                                    ELSE self.value_min), send, env)
    ELSE set_value(self, ArgNum(Get(self.value_min)
                                + DivT(val * self.value_range, 128)), send, env)

\* midi_control_change, lines 530-546: mode absolute
dispatch_absolute(self, val, send, env) ==
    IF self.is_logarithmic
    THEN set_value(self, ArgNum(Get(self.value_min)
                                + DivT(self.value_range * (Pow10_127(val) - PowOne), 9 * PowOne)),
                   send, env)
    ELSE IF self.is_toggle
    THEN IF self.midi_cc_momentary_switch
         THEN IF val >= 64 THEN toggle(self, env)
              ELSE Outcome(self, {}, FALSE, "None")
         ELSE set_value(self, ArgOf(IF val >= 64 THEN self.value_max
                                    ELSE self.value_min), send, env)
    ELSE set_value(self, ArgNum(Get(self.value_min)
                                + DivT(val * self.value_range, 127)), send, env)

\* midi_control_change, lines 548-588: mode relative 1, 2 or 3
dispatch_relative(self, val, send, env) ==
    LET d == RelativeDelta(self.midi_cc_mode, val)
    IN IF d = None THEN Outcome(self, {}, FALSE, "None")
       ELSE
       LET dval == Get(d)
       IN IF self.is_logarithmic
          THEN IF self.value = None \/ (dval <= 0 /\ 10 + dval = 0)
               THEN Outcome(self, {}, TRUE, "None")
               ELSE set_value(self,
                              ArgNum(IF dval > 0
                                     THEN DivT(Get(self.value) * (10 + dval), 10)
                                     ELSE IF 10 + dval > 0
                                     THEN DivT(Get(self.value) * 10, 10 + dval)
                                     ELSE -DivT(Get(self.value) * 10, -(10 + dval))),
                              send, env)
          ELSE IF self.is_toggle
          THEN IF self.midi_cc_momentary_switch
               THEN IF dval > 0 THEN toggle(self, env)
                    ELSE Outcome(self, {}, FALSE, "None")
               ELSE set_value(self, ArgOf(IF dval > 0 THEN self.value_max
                                          ELSE self.value_min), send, env)
          ELSE LET r == nudge(self, dval, send, FALSE, env)
               IN Outcome(r.self, r.sent, r.raised, "None")

\* Faulty variants of midi_control_change: one that runs the detector on
\* every byte, one that runs it while the mode is Absolute as well
midi_control_change_always_detects(self, val, send, gap, env) ==
    LET s == midi_cc_mode_detect(self, val, gap)
        r == IF s.midi_cc_mode = 0 THEN dispatch_absolute(s, val, send, env)
             ELSE IF s.midi_cc_mode > 0 THEN dispatch_relative(s, val, send, env)
             ELSE Outcome(s, {}, FALSE, "None")
    IN [self |-> IF r.raised THEN s ELSE r.self, sent |-> r.sent,
        raised |-> r.raised, ret |-> "None", ts_set |-> TRUE]

midi_control_change_redetects_absolute(self, val, send, gap, env) ==
    LET observed == self.midi_cc_mode <= 0
        s == IF observed THEN midi_cc_mode_detect(self, val, gap) ELSE self
        r == IF s.midi_cc_mode = 0 THEN dispatch_absolute(s, val, send, env)
             ELSE IF s.midi_cc_mode > 0 THEN dispatch_relative(s, val, send, env)
             ELSE Outcome(s, {}, FALSE, "None")
    IN [self |-> IF r.raised THEN s ELSE r.self, sent |-> r.sent,
        raised |-> r.raised, ret |-> "None", ts_set |-> observed]

\* A faulty variant of midi_control_change: a toggle is never observed by
\* the detector
midi_control_change_toggle_unobserved(self, val, send, gap, env) ==
    LET observed == self.midi_cc_mode = -1 /\ ~self.is_toggle
        s == IF observed THEN midi_cc_mode_detect(self, val, gap) ELSE self
        r == IF s.midi_cc_mode = 0 THEN dispatch_absolute(s, val, send, env)
             ELSE IF s.midi_cc_mode > 0 THEN dispatch_relative(s, val, send, env)
             ELSE Outcome(s, {}, FALSE, "None")
    IN [self |-> IF r.raised THEN s ELSE r.self, sent |-> r.sent,
        raised |-> r.raised, ret |-> "None", ts_set |-> observed]

\* zynthian_controller.midi_control_change.  The outcome also says whether
\* midi_cc_mode_detecting_ts was set to the current time.
\* A faulty variant of midi_control_change: while the mode is unknown the
\* byte is dispatched as an absolute one
midi_control_change_unknown_absolute(self, val, send, gap, env) ==
    LET observed == self.midi_cc_mode = -1
        s == IF observed THEN midi_cc_mode_detect(self, val, gap) ELSE self
        r == IF s.midi_cc_mode <= 0 THEN dispatch_absolute(s, val, send, env)
             ELSE dispatch_relative(s, val, send, env)
    IN [self |-> IF r.raised THEN s ELSE r.self, sent |-> r.sent,
        raised |-> r.raised, ret |-> "None", ts_set |-> observed]

\* A faulty variant of midi_control_change: the byte the detector has
\* observed is used up by the detection and not dispatched
midi_control_change_commit_only(self, val, send, gap, env) ==
    LET observed == self.midi_cc_mode = -1
        s == IF observed THEN midi_cc_mode_detect(self, val, gap) ELSE self
        r == IF observed THEN Outcome(s, {}, FALSE, "None")
             ELSE IF s.midi_cc_mode = 0 THEN dispatch_absolute(s, val, send, env)
             ELSE IF s.midi_cc_mode > 0 THEN dispatch_relative(s, val, send, env)
             ELSE Outcome(s, {}, FALSE, "None")
    IN [self |-> IF r.raised THEN s ELSE r.self, sent |-> r.sent,
        raised |-> r.raised, ret |-> "None", ts_set |-> observed]

midi_control_change(self, val, send, gap, env) ==
    LET observed == self.midi_cc_mode = -1
        s == IF observed THEN midi_cc_mode_detect(self, val, gap) ELSE self
        r == IF s.midi_cc_mode = 0 THEN dispatch_absolute(s, val, send, env)
             ELSE IF s.midi_cc_mode > 0 THEN dispatch_relative(s, val, send, env)
             ELSE Outcome(s, {}, FALSE, "None")
    IN [self |-> IF r.raised THEN s ELSE r.self, sent |-> r.sent,
        raised |-> r.raised, ret |-> "None", ts_set |-> observed]

\* ------------------------------------------------------------ controllers
\* The options the controllers of the model are constructed with
IntegerOptions ==
    [NoOptions EXCEPT !.value_min = Some(0), !.value_max = Some(Num(4))]

SwitchOptions ==
    [NoOptions EXCEPT !.value_min = Some(0), !.value_max = Some(Num(1))]

RealOptions ==
    [NoOptions EXCEPT !.value_min = Some(0), !.value_max = Some(Num(10)),
                      !.is_float = TRUE, !.value = Some(Num(5)),
                      !.nudge_factor = Some(Num(5))]

TickedOptions ==
    [NoOptions EXCEPT !.labels = Some(<<"a", "b", "c">>),
                      !.ticks = Some(<<0, Num(10), Num(20)>>)]

ToggleOptions ==
    [NoOptions EXCEPT !.labels = Some(<<"off", "on">>)]

MomentaryOptions ==
    [NoOptions EXCEPT !.labels = Some(<<"off", "on">>),
                      !.midi_cc_momentary_switch = Some(TRUE)]

LogarithmicOptions ==
    [NoOptions EXCEPT !.value_min = Some(Num(1)), !.value_max = Some(Num(11)),
                      !.is_float = TRUE, !.is_logarithmic = Some(TRUE),
                      !.value = Some(Num(1)),
                      !.nudge_factor = Some(Den \div 2)]

\* How a controller is wired to its sinks: an OSC path, or a MIDI channel
\* and CC number (which also gives it MIDI feedback), or neither
WithOsc(o) == [o EXCEPT !.osc_path = Some("/param")]
WithMidi(o) == [o EXCEPT !.midi_chan = Some(0), !.midi_cc = Some(7)]

\* __init__: reset, then set_options
Construct(engine, options) == set_options(reset(engine), options).self

\* -------------------------------------------------------------- the calls
\* What `last` keeps of a call: its name and argument, the sinks it invoked,
\* whether it raised, the sinks whose send raised where the call is made
\* with failing sends (SetValueFailing), and the mode, the streak and the
\* time since the last observed byte it found.
Call(op, val, r) ==
    [op |-> op, val |-> val, sent |-> r.sent, raised |-> r.raised,
     failed |-> {},
     mode |-> zctrl.midi_cc_mode,
     count |-> zctrl.midi_cc_mode_detecting_count,
     gap |-> elapsed]

\* No byte observed yet
NoRun == [band |-> 0, len |-> 0, timely |-> 0]

NoCall(self) ==
    [op |-> "__init__", val |-> ArgNone, sent |-> {}, raised |-> FALSE,
     failed |-> {}, mode |-> -1, count |-> 0, gap |-> 0]

Plain(self) == Outcome(self, {}, FALSE, "None")

\* The bytes a CC message can carry
AllBytes == 0 .. 127

\* The bytes at the edges of the detection bands, the centres and their
\* neighbours
EdgeBytes ==
    {0, 1, 6, 7, 15, 16, 17, 24, 25, 54, 55, 63, 64, 65, 73, 74, 100, 121,
     122, 127}

\* The three centres and three bytes outside every band: in a relative mode
\* they are the steps -64, -48, -16, -10, +16, +36, +38, +48, +54 and more
StepBytes == {0, 16, 64, 54, 100, 118}

\* The arguments set_value is called with: numbers below, on, between and
\* above the bounds, labels of the tables and a label of none
SetValueArgs ==
    {ArgNum(Num(n)) : n \in {-1, 0, 3, 10, 63, 64, 127, 128}}
    \cup {ArgNum(Num(2) + Den \div 2)}
    \cup {ArgStr(l) : l \in {"on", "c", "zz"}}

SetValue ==
    \E val \in SetValueArgs, send \in BOOLEAN, env \in Envs :
        LET r == set_value(zctrl, val, send, env)
        IN /\ zctrl' = r.self
           /\ last' = Call("set_value", val, r)
           /\ UNCHANGED <<elapsed, fed, bindings, run>>

Nudge ==
    \E val \in -MaxNudge .. MaxNudge, send \in BOOLEAN, env \in Envs :
        LET r == nudge(zctrl, val, send, FALSE, env)
        IN /\ zctrl' = r.self
           /\ last' = Call("nudge", ArgNum(val), r)
           /\ UNCHANGED <<elapsed, fed, bindings, run>>

Toggle ==
    \E env \in Envs :
        LET r == toggle(zctrl, env)
        IN /\ zctrl' = r.self
           /\ last' = Call("toggle", ArgNone, r)
           /\ UNCHANGED <<elapsed, fed, bindings, run>>

ResetValue ==
    \E env \in Envs :
        LET r == reset_value(zctrl, env)
        IN /\ zctrl' = r.self
           /\ last' = Call("reset_value", ArgNone, r)
           /\ UNCHANGED <<elapsed, fed, bindings, run>>

SetReadonly ==
    \E flag \in BOOLEAN :
        /\ zctrl' = set_readonly(zctrl, flag)
        /\ last' = Call("set_readonly", ArgNone, Plain(zctrl))
        /\ UNCHANGED <<elapsed, fed, bindings, run>>

MidiControlChange(bytes, sends) ==
    \E val \in bytes, send \in sends, env \in Envs :
        LET r == midi_control_change(zctrl, val, send, elapsed, env)
        IN /\ zctrl' = r.self
           /\ elapsed' = IF r.ts_set THEN 0 ELSE elapsed
           /\ last' = Call("midi_control_change", ArgNum(val), r)
           /\ UNCHANGED <<fed, bindings, run>>

MidiCCModeReset ==
    /\ zctrl' = midi_cc_mode_reset(zctrl)
    /\ last' = Call("midi_cc_mode_reset", ArgNone, Plain(zctrl))
    /\ UNCHANGED <<elapsed, fed, bindings, run>>

\* midi_learn_options_cb calls midi_cc_mode_set with 0 or -1
MidiCCModeSet ==
    \E cc_mode \in {-1, 0} :
        /\ zctrl' = midi_cc_mode_set(zctrl, cc_mode)
        /\ last' = Call("midi_cc_mode_set", ArgNum(cc_mode), Plain(zctrl))
        /\ UNCHANGED <<elapsed, fed, bindings, run>>

\* The GUI has drawn the value: zynthian_gui_controller.plot_value clears
\* the flag once it has shown the change.
plot_value(self) == [self EXCEPT !.is_dirty = FALSE]

PlotValue ==
    /\ zctrl.is_dirty
    /\ zctrl' = plot_value(zctrl)
    /\ last' = Call("plot_value", ArgNone, Plain(zctrl))
    /\ UNCHANGED <<elapsed, fed, bindings, run>>

\* Time passes between two calls
Tick ==
    /\ elapsed < MaxElapsed
    /\ elapsed' = elapsed + 1
    /\ UNCHANGED <<zctrl, last, fed, bindings, run>>

\* ------------------------------------------------------- specifications
\* A controller whose CC mode has been detected: the object as the byte
\* that commits mode m leaves it (for a relative mode, a centre byte that
\* follows a step).
Detected(self, m) ==
    IF m = 0 THEN [self EXCEPT !.midi_cc_mode = 0]
    ELSE [self EXCEPT !.midi_cc_mode = m,
                      !.midi_cc_mode_detecting = m,
                      !.midi_cc_mode_detecting_count = MIDI_CC_MODE_DETECT_STEPS,
                      !.midi_cc_mode_detecting_zero = -1]

Controllers ==
    {Construct(TRUE, WithMidi(IntegerOptions)),
     Construct(TRUE, WithOsc(RealOptions)),
     Construct(FALSE, WithMidi(TickedOptions)),
     Construct(TRUE, ToggleOptions),
     Construct(TRUE, WithOsc(MomentaryOptions)),
     Construct(TRUE, WithMidi(LogarithmicOptions))}

\* Spec: every kind of controller under every call, as constructed or with
\* its CC mode detected.
Init ==
    /\ zctrl \in Controllers
                 \cup {Detected(c, m) : c \in Controllers, m \in 0 .. 3}
    /\ elapsed = 0
    /\ last = NoCall(zctrl)
    /\ fed = 0
    /\ bindings = <<>>
    /\ run = NoRun

Next ==
    \/ SetValue
    \/ Nudge
    \/ Toggle
    \/ ResetValue
    \/ SetReadonly
    \/ MidiControlChange(StepBytes, BOOLEAN)
    \/ PlotValue

Spec == Init /\ [][Next]_vars

\* SpecDetect: the CC stream of one controller and the calls that set or
\* reset its mode, with time passing between them.
DetectControllers == {Construct(FALSE, SwitchOptions)}

InitDetect ==
    /\ zctrl \in DetectControllers
    /\ elapsed \in 0 .. MaxElapsed
    /\ last = NoCall(zctrl)
    /\ fed = 0
    /\ bindings = <<>>
    /\ run = NoRun

NextDetect ==
    \/ MidiControlChange(EdgeBytes, {TRUE})
    \/ MidiCCModeReset
    \/ MidiCCModeSet
    \/ Tick

SpecDetect == InitDetect /\ [][NextDetect]_vars

\* SpecFresh: a freshly constructed controller under midi_control_change
\* alone, with bytes of every band and of none, at every pace.
FreshBytes == {0, 1, 17, 55, 64, 65, 100}

\* The relative band midi_cc_mode_detect files a byte under (lines 624,
\* 656, 688), 0 for a byte of no band (line 719)
BandOf(val) ==
    IF InBand(1, val) THEN 1
    ELSE IF InBand(2, val) THEN 2
    ELSE IF InBand(3, val) THEN 3
    ELSE 0

Observe ==
    \E val \in FreshBytes, send \in {TRUE}, env \in Envs :
        LET r == midi_control_change(zctrl, val, send, elapsed, env)
        IN /\ fed < MaxBytes
           /\ zctrl' = r.self
           /\ elapsed' = IF r.ts_set THEN 0 ELSE elapsed
           /\ last' = Call("midi_control_change", ArgNum(val), r)
           /\ fed' = fed + 1
           /\ run' = [band |-> BandOf(val),
                      len |-> IF BandOf(val) = run.band THEN run.len + 1
                              ELSE 1,
                      timely |-> IF fed > 0
                                    /\ elapsed <= MIDI_CC_MODE_DETECT_TIMEOUT
                                 THEN run.timely + 1 ELSE 0]
           /\ UNCHANGED bindings

NextFresh ==
    \/ Observe
    \/ Tick

SpecFresh == InitDetect /\ [][NextFresh]_vars

\* SpecStream: a freshly constructed controller fed a stream that conforms
\* to one relative convention: a byte next to the centre and the centre
\* byte in turn, each at most the timeout after the one before.
StreamBytes == {63, 64, 65, 0, 1, 127, 15, 16, 17}

Conforms(val) ==
    IF fed = 0 THEN TRUE
    ELSE /\ elapsed <= MIDI_CC_MODE_DETECT_TIMEOUT
         /\ \E m \in 1 .. 3 :
               /\ InBand(m, val) /\ InBand(m, last.val.n)
               /\ IF last.val.n = Centre(m) THEN Adjacent(m, val)
                  ELSE val = Centre(m)

FeedStream ==
    \E val \in StreamBytes, send \in {TRUE}, env \in Envs :
        LET r == midi_control_change(zctrl, val, send, elapsed, env)
        IN /\ fed < MaxFed
           /\ Conforms(val)
           /\ zctrl' = r.self
           /\ elapsed' = IF r.ts_set THEN 0 ELSE elapsed
           /\ last' = Call("midi_control_change", ArgNum(val), r)
           /\ fed' = fed + 1
           /\ UNCHANGED <<bindings, run>>

NextStream ==
    \/ FeedStream
    \/ Tick

SpecStream == InitDetect /\ [][NextStream]_vars

\* SpecRelative2: a freshly constructed controller fed a stream of the
\* Relative2 convention as the docstring of midi_cc_mode_detect gives it
\* (lines 601-602, 607): steps 118..127 and 1..9 with a 0 between the
\* steps, each byte at most the timeout after the one before.
Relative2Steps == {118, 121, 122, 127, 1, 6, 7, 9}

FeedRelative2 ==
    \E val \in Relative2Steps \cup {0}, send \in {TRUE}, env \in Envs :
        LET r == midi_control_change(zctrl, val, send, elapsed, env)
        IN /\ fed < MaxFed
           /\ fed > 0 => /\ elapsed <= MIDI_CC_MODE_DETECT_TIMEOUT
                          /\ (val = 0) = (last.val.n # 0)
           /\ zctrl' = r.self
           /\ elapsed' = IF r.ts_set THEN 0 ELSE elapsed
           /\ last' = Call("midi_control_change", ArgNum(val), r)
           /\ fed' = fed + 1
           /\ UNCHANGED <<bindings, run>>

NextRelative2 ==
    \/ FeedRelative2
    \/ Tick

SpecRelative2 == InitDetect /\ [][NextRelative2]_vars

\* SpecMode: one controller, as constructed or with its CC mode detected,
\* under every call there is, the two that set the CC mode included.
InitMode ==
    /\ zctrl \in DetectControllers \cup
                 {Detected(c, m) : c \in DetectControllers, m \in 0 .. 3}
    /\ elapsed = 0
    /\ last = NoCall(zctrl)
    /\ fed = 0
    /\ bindings = <<>>
    /\ run = NoRun

NextMode ==
    \/ SetValue
    \/ Nudge
    \/ Toggle
    \/ ResetValue
    \/ SetReadonly
    \/ MidiControlChange(StepBytes, BOOLEAN)
    \/ MidiCCModeReset
    \/ MidiCCModeSet
    \/ PlotValue

SpecMode == InitMode /\ [][NextMode]_vars

\* SpecDelivery: controllers with an engine and a fallback sink under
\* set_value, with every send free to raise.
SetValueFailing ==
    \E val \in SetValueArgs, send \in BOOLEAN, env \in Faults :
        LET r == set_value(zctrl, val, send, env)
        IN /\ zctrl' = r.self
           /\ last' = [Call("set_value", val, r)
                          EXCEPT !.failed = Failed(r.sent, env)]
           /\ UNCHANGED <<elapsed, fed, bindings, run>>

DeliveryControllers ==
    {Construct(TRUE, WithMidi(IntegerOptions)),
     Construct(TRUE, WithOsc(RealOptions)),
     Construct(TRUE, WithOsc(ToggleOptions))}

InitDelivery ==
    /\ zctrl \in DeliveryControllers
    /\ elapsed = 0
    /\ last = NoCall(zctrl)
    /\ fed = 0
    /\ bindings = <<>>
    /\ run = NoRun

NextDelivery ==
    \/ SetValueFailing
    \/ PlotValue

SpecDelivery == InitDelivery /\ [][NextDelivery]_vars

\* SpecTable: controllers with a label and tick table, constructed on or
\* between the ticks, under nudge and set_value.
Tables ==
    {[labels |-> <<"a", "b", "c", "d">>,
      ticks |-> <<0, Num(10), Num(20), Num(30)>>],
     [labels |-> <<"a", "b", "c", "d">>,
      ticks |-> <<Num(30), Num(20), Num(10), 0>>],
     [labels |-> <<"a", "b", "c">>, ticks |-> <<>>],
     [labels |-> <<"a", "b", "c">>, ticks |-> <<0, Num(10), Num(10)>>],
     [labels |-> <<"a", "b", "c">>, ticks |-> <<0, Num(20), Num(10)>>],
     [labels |-> <<"a", "b", "c">>, ticks |-> <<0, 0, Num(10)>>],
     [labels |-> <<"a", "b", "a">>, ticks |-> <<0, Num(10), Num(20)>>]}

TableValues == {0, Num(5), Num(10), Num(12), Num(15), Num(30)}

TableOptions(table, value) ==
    WithMidi([NoOptions EXCEPT !.labels = Some(table.labels),
                               !.ticks = Some(table.ticks),
                               !.value = Some(value)])

\* Label lists of 2, 3 and 4 labels without ticks, with each bound unset or
\* given, as an integer or a real range
LabelOptions ==
    {WithMidi([NoOptions EXCEPT !.labels = Some(labels),
                                !.value_min = lo, !.value_max = hi,
                                !.is_float = is_float]) :
        labels \in {<<"a", "b">>, <<"a", "b", "c">>, <<"a", "b", "c", "d">>},
        lo \in {None, Some(0), Some(Num(4))},
        hi \in {None, Some(Num(10))},
        is_float \in BOOLEAN}

NudgeTable ==
    \E val \in -MaxStep .. MaxStep, send \in {TRUE}, env \in Envs :
        LET r == nudge(zctrl, val, send, FALSE, env)
        IN /\ zctrl' = r.self
           /\ last' = Call("nudge", ArgNum(val), r)
           /\ UNCHANGED <<elapsed, fed, bindings, run>>

\* Three labels on the integer range [0, 1]: more labels than integers
RepeatedOptions ==
    WithMidi([NoOptions EXCEPT !.labels = Some(<<"a", "b", "c">>),
                               !.value_min = Some(0),
                               !.value_max = Some(Num(1))])

InitTable ==
    /\ zctrl \in {Construct(FALSE, TableOptions(table, value)) :
                     table \in Tables, value \in TableValues}
                 \cup {Construct(FALSE, options) : options \in LabelOptions}
                 \cup {Construct(FALSE, RepeatedOptions)}
    /\ elapsed = 0
    /\ last = NoCall(zctrl)
    /\ fed = 0
    /\ bindings = <<>>
    /\ run = NoRun

NextTable ==
    \/ NudgeTable
    \/ SetValue

SpecTable == InitTable /\ [][NextTable]_vars

\* SpecConfigure: controllers reconfigured through set_options with ranges
\* and tables that are well formed, degenerate or malformed.
RangeBounds == {0, Num(4), Num(10)}

RangeOptions(lo, hi) ==
    WithMidi([NoOptions EXCEPT !.value_min = Some(lo), !.value_max = Some(hi)])

ConfigureOptions ==
    {RangeOptions(lo, hi) : lo \in RangeBounds, hi \in RangeBounds}
    \cup
    {[NoOptions EXCEPT !.labels = Some(table.labels),
                       !.ticks = Some(table.ticks)] :
        table \in {[labels |-> <<"a", "b", "c">>,
                    ticks |-> <<0, Num(10), Num(20)>>],
                   [labels |-> <<"a", "b", "c">>,
                    ticks |-> <<0, Num(10)>>],
                   [labels |-> <<"a", "b", "c">>,
                    ticks |-> <<0, Num(10), Num(20), Num(30)>>]}}

\* A table given together with bounds of its own: _configure keeps bounds
\* that are not None when the ticks ascend (lines 219-224)
BoundedTableOptions ==
    WithMidi([NoOptions EXCEPT !.value_min = Some(Num(4)),
                               !.value_max = Some(Num(10)),
                               !.labels = Some(<<"a", "b", "c">>),
                               !.ticks = Some(<<0, Num(10), Num(20)>>)])

SetLabel ==
    \E val \in {ArgStr(l) : l \in {"a", "b"}}, send \in BOOLEAN,
       env \in Envs :
        LET r == set_value(zctrl, val, send, env)
        IN /\ zctrl' = r.self
           /\ last' = Call("set_value", val, r)
           /\ UNCHANGED <<elapsed, fed, bindings, run>>

SetOptions ==
    \E options \in ConfigureOptions :
        LET r == set_options(zctrl, options)
        IN /\ zctrl' = r.self
           /\ last' = Call("set_options", ArgNone,
                           [sent |-> {}, raised |-> r.raised])
           /\ UNCHANGED <<elapsed, fed, bindings, run>>

InitConfigure ==
    /\ zctrl \in {Construct(FALSE, WithMidi(NoOptions)),
                   Construct(FALSE, RangeOptions(Num(4), Num(4))),
                   Construct(FALSE, BoundedTableOptions)}
    /\ elapsed = 0
    /\ last = NoCall(zctrl)
    /\ fed = 0
    /\ bindings = <<>>
    /\ run = NoRun

NextConfigure ==
    \/ SetOptions
    \/ SetValue
    \/ SetLabel

SpecConfigure == InitConfigure /\ [][NextConfigure]_vars

\* SpecBindings: two controllers built from the same options dictionary,
\* so that both reference its label and tick lists, under interleaved
\* set_value, nudge and midi_control_change calls.
\* A faulty variant of Bind: the value is kept in an object that both
\* controllers reference
Bind_shared_value(objects, i, self) ==
    [j \in 1 .. 2 |-> IF j = i THEN self
                      ELSE [objects[j] EXCEPT !.value = self.value]]

\* What a method leaves of the two objects when called on object i: every
\* assignment of the class is to an attribute of self, and the lists of
\* the options dictionary that both objects reference are never written
\* (_configure appends only to a list it has just created, lines 196-216).
Bind(objects, i, self) == [objects EXCEPT ![i] = self]

BindingCall(i, op, val, r, a) ==
    /\ zctrl' = r.self
    /\ bindings' = [ctrl |-> Bind(bindings.ctrl, i, r.self),
                    alone |-> [bindings.alone EXCEPT ![i] = a.self]]
    /\ last' = [NoCall(r.self) EXCEPT
                   !.op = op, !.val = val,
                   !.mode = bindings.ctrl[i].midi_cc_mode,
                   !.count = bindings.ctrl[i].midi_cc_mode_detecting_count]
    /\ UNCHANGED <<elapsed, fed, run>>

BindingSetValue ==
    \E i \in 1 .. 2, val \in {ArgNum(0), ArgNum(Num(3))}, send \in {TRUE},
       env \in Envs :
        LET r == set_value(bindings.ctrl[i], val, send, env)
            a == set_value(bindings.alone[i], val, send, env)
        IN BindingCall(i, "set_value", val, r, a)

BindingNudge ==
    \E i \in 1 .. 2, val \in {-1, 1}, send \in {TRUE}, env \in Envs :
        LET r == nudge(bindings.ctrl[i], val, send, FALSE, env)
            a == nudge(bindings.alone[i], val, send, FALSE, env)
        IN BindingCall(i, "nudge", ArgNum(val), r, a)

BindingMidiControlChange ==
    \E i \in 1 .. 2, val \in {64, 100}, send \in {TRUE}, env \in Envs :
        LET r == midi_control_change(bindings.ctrl[i], val, send, elapsed, env)
            a == midi_control_change(bindings.alone[i], val, send, elapsed, env)
        IN BindingCall(i, "midi_control_change", ArgNum(val), r, a)

InitBindings ==
    /\ zctrl \in {Construct(FALSE, WithMidi(IntegerOptions)),
                   Construct(FALSE, WithMidi(TickedOptions))}
    /\ bindings = [ctrl |-> <<zctrl, zctrl>>, alone |-> <<zctrl, zctrl>>]
    /\ run = NoRun
    /\ elapsed = 0
    /\ last = NoCall(zctrl)
    /\ fed = 0

NextBindings ==
    \/ BindingSetValue
    \/ BindingNudge
    \/ BindingMidiControlChange

SpecBindings == InitBindings /\ [][NextBindings]_vars

\* ------------------------------------------------------------- properties
\* What the properties read of the object and of the last call
mode == zctrl.midi_cc_mode
candidate == zctrl.midi_cc_mode_detecting
streak == zctrl.midi_cc_mode_detecting_count

Scratch(self) ==
    <<self.midi_cc_mode_detecting, self.midi_cc_mode_detecting_count,
      self.midi_cc_mode_detecting_zero>>

ByteCall == last.op = "midi_control_change"
ModeCall == last.op \in {"midi_cc_mode_reset", "midi_cc_mode_set"}

\* The times since the last observed byte a call is tried with: the
\* timeout exactly, the next longer one, and the time that has passed
Gaps ==
    {MIDI_CC_MODE_DETECT_TIMEOUT, MIDI_CC_MODE_DETECT_TIMEOUT + 1, elapsed}

\* The bytes outside every relative band, as the specification lists them
AbsoluteBytes == (25 .. 54) \cup (74 .. 121)

\* Byte val goes on with the alternation of the candidate: the centre byte
\* after a step, or a step after the centre byte
Alternates(self, val) ==
    /\ self.midi_cc_mode_detecting \in 1 .. 3
    /\ InBand(self.midi_cc_mode_detecting, val)
    /\ IF val = Centre(self.midi_cc_mode_detecting)
       THEN self.midi_cc_mode_detecting_zero <= 0
       ELSE self.midi_cc_mode_detecting_zero >= 0

\* Byte val is counted by the detector: it alternates, and a step that
\* follows the candidate's first byte is one next to the centre
Corroborates(self, val) ==
    /\ Alternates(self, val)
    /\ (val # Centre(self.midi_cc_mode_detecting)
        /\ self.midi_cc_mode_detecting_zero = 0)
          => Adjacent(self.midi_cc_mode_detecting, val)

\* The outcomes of the calls that can set the value of self
ValueCalls(self, gap) ==
    {set_value(self, val, send, env) :
        val \in SetValueArgs, send \in BOOLEAN, env \in Envs}
    \cup {nudge(self, val, send, fine, env) :
            val \in (-MaxNudge) .. MaxNudge, send \in BOOLEAN,
            fine \in BOOLEAN, env \in Envs}
    \cup {toggle(self, env) : env \in Envs}
    \cup {reset_value(self, env) : env \in Envs}
    \cup {Outcome(r.self, r.sent, r.raised, r.ret) :
            r \in {midi_control_change(self, val, send, gap, env) :
                     val \in EdgeBytes \cup StepBytes, send \in BOOLEAN,
                     env \in Envs}}

\* C1: once the mode is Absolute or a relative mode, a midi_control_change
\* call, whatever its byte and the time since the last one, leaves the mode
\* as it is and does not run the detector: the detector's scratch and
\* timestamp are untouched.
C1_ModeSticky ==
    /\ (ByteCall /\ last.mode \in 0 .. 3) => mode = last.mode
    /\ mode \in 0 .. 3 =>
          \A val \in AllBytes :
             LET r == midi_control_change(zctrl, val, TRUE, elapsed,
                                          [engine_raises |-> FALSE])
             IN /\ r.self.midi_cc_mode = mode
                /\ Scratch(r.self) = Scratch(zctrl)
                /\ ~r.ts_set

\* A byte of another convention's band has been dispatched under a
\* committed relative mode
C1_Witness ==
    /\ ByteCall
    /\ last.mode \in 1 .. 3
    /\ ~InBand(last.mode, last.val.n)
    /\ mode = last.mode

\* C2 as stated: no call takes the mode from a classified value to Unknown
\* or to another classified value.
C2_ModeNeverReverts == last.mode \in 0 .. 3 => mode = last.mode

\* C2: midi_cc_mode_reset leaves the mode Unknown and midi_cc_mode_set
\* leaves it the mode it was given, whatever the mode was; every other call
\* leaves a classified mode as it is.
C2_ModeSetOnlyByModeCalls ==
    /\ last.op = "midi_cc_mode_reset" => mode = -1
    /\ last.op = "midi_cc_mode_set" => mode = last.val.n
    /\ (last.mode \in 0 .. 3 /\ ~ModeCall) => mode = last.mode
    /\ mode \in 0 .. 3 =>
          /\ \A r \in ValueCalls(zctrl, elapsed) : r.self.midi_cc_mode = mode
          /\ \A flag \in BOOLEAN : set_readonly(zctrl, flag).midi_cc_mode = mode
          /\ midi_cc_mode_reset(zctrl).midi_cc_mode = -1
          /\ \A cc_mode \in -1 .. 3 :
                midi_cc_mode_set(zctrl, cc_mode).midi_cc_mode = cc_mode

\* midi_cc_mode_reset has taken a committed relative mode back to Unknown
C2_Witness ==
    /\ last.op = "midi_cc_mode_reset"
    /\ last.mode \in 1 .. 3
    /\ mode = -1

C4_StreamConverges ==
    /\ fed = 0 => mode = -1
    /\ fed > 0 =>
          /\ mode \in {-1} \cup {m \in 1 .. 3 : InBand(m, last.val.n)}
          /\ fed >= 16 => mode # -1

\* Sixteen bytes of a Relative3 stream have been fed
C4_Witness ==
    /\ fed = 16
    /\ last.val = ArgNum(16)
    /\ mode = 3

C6_TimeoutReset ==
    /\ (ByteCall /\ last.mode = -1 /\ last.gap > MIDI_CC_MODE_DETECT_TIMEOUT)
          => (streak <= 1 \/ mode = 0)
    /\ mode = -1 =>
          \A val \in AllBytes, gap \in Gaps :
             LET r == midi_control_change(zctrl, val, TRUE, gap,
                                          [engine_raises |-> FALSE])
                 fresh == midi_control_change(
                              [zctrl EXCEPT !.midi_cc_mode_detecting_count = 0],
                              val, TRUE, gap, [engine_raises |-> FALSE])
             IN /\ r.ts_set
                /\ gap > MIDI_CC_MODE_DETECT_TIMEOUT =>
                      /\ r.self = fresh.self
                      /\ r.self.midi_cc_mode = -1
                            => r.self.midi_cc_mode_detecting_count <= 1
                /\ (gap <= MIDI_CC_MODE_DETECT_TIMEOUT
                    /\ Corroborates(zctrl, val)
                    /\ streak < MIDI_CC_MODE_DETECT_STEPS) =>
                      r.self.midi_cc_mode_detecting_count = streak + 1

\* A Relative2 streak of 4 has been interrupted by a gap longer than the
\* timeout, and the next byte has started the count again
C6_Witness ==
    /\ ByteCall
    /\ last.mode = -1
    /\ last.count = 4
    /\ last.gap > MIDI_CC_MODE_DETECT_TIMEOUT
    /\ candidate = 2
    /\ streak = 1
    /\ mode = -1

\* C7: the value is a number within [value_min, value_max] in every state.
C7_ClampInvariant ==
    /\ zctrl.value # None
    /\ Get(zctrl.value_min) <= Get(zctrl.value)
    /\ Get(zctrl.value) <= Get(zctrl.value_max)

\* C8: a call that leaves the value as it was leaves is_dirty as it was and
\* invokes no sink.
C8_ChangeOnlyNotification ==
    \A r \in ValueCalls(zctrl, elapsed) :
       r.self.value = zctrl.value =>
          (r.self.is_dirty = zctrl.is_dirty /\ r.sent = {})

\* set_value has been called with the current value on a clean, writable
\* controller with an engine
C8_Witness ==
    /\ last.op = "set_value"
    /\ last.val = ArgOf(zctrl.value)
    /\ last.sent = {}
    /\ zctrl.engine
    /\ ~zctrl.readonly
    /\ ~zctrl.is_dirty

\* C9: while readonly is set, set_value, nudge, toggle, reset_value and
\* midi_control_change, in every CC mode, leave value and is_dirty as they
\* were and invoke no sink.
C9_ReadonlyInert ==
    zctrl.readonly =>
       \A r \in ValueCalls(zctrl, elapsed) :
          /\ r.self.value = zctrl.value
          /\ r.self.is_dirty = zctrl.is_dirty
          /\ r.sent = {}

\* A relative byte has reached a clean read-only controller
C9_Witness ==
    /\ zctrl.readonly
    /\ ByteCall
    /\ last.mode \in 1 .. 3
    /\ last.val.n # Centre(last.mode)
    /\ last.sent = {}
    /\ ~zctrl.is_dirty

\* C10: set_value with a label that is not in the label map, or on a
\* controller without labels, leaves value and is_dirty as they were,
\* invokes no sink and returns normally.
C10_UnknownLabelRecovered ==
    \A send \in BOOLEAN, env \in Envs :
       LET r == set_value(zctrl, ArgStr("zz"), send, env)
       IN /\ r.self.value = zctrl.value
          /\ r.self.is_dirty = zctrl.is_dirty
          /\ r.sent = {}
          /\ ~r.raised

\* x brought into [lo, hi] the way _set_value does it
Clamp(x, lo, hi) == IF x > hi THEN hi ELSE IF x < lo THEN lo ELSE x

\* C11: midi_control_change returns normally for every controller, every
\* CC mode and every byte.
C11_NoErrorEscapes ==
    /\ ByteCall => ~last.raised
    /\ \A val \in AllBytes, env \in Envs :
          ~midi_control_change(zctrl, val, TRUE, elapsed, env).raised

\* C12: a set_value that changes the value returns normally, with the
\* value the new clamped value and is_dirty set, whichever of the engine
\* send, the fallback send and the feedback send raise.
C12_DeliveryFailureKeepsState ==
    /\ (last.op = "set_value" /\ last.failed # {}) =>
          (~last.raised /\ zctrl.is_dirty)
    /\ \A val \in SetValueArgs, send \in BOOLEAN, env \in Faults :
          LET r == set_value(zctrl, val, send, env)
              target == _set_value(zctrl, val)
          IN (~zctrl.readonly /\ ~target.raised
              /\ target.self.value # zctrl.value) =>
                /\ ~r.raised
                /\ r.self.is_dirty
                /\ r.self.value = target.self.value
                /\ (val.t = "num" /\ ~zctrl.is_toggle /\ zctrl.ticks = <<>>) =>
                      r.self.value =
                         Some(Clamp(IF zctrl.is_integer THEN int(val.n)
                                    ELSE val.n,
                                    Get(zctrl.value_min),
                                    Get(zctrl.value_max)))

\* set_value has changed the value while the engine send, the MIDI CC
\* fallback and the MIDI feedback all raised
C12_Witness ==
    /\ last.op = "set_value"
    /\ last.failed = {"engine", "midi_cc", "feedback"}
    /\ ~last.raised
    /\ zctrl.is_dirty
    /\ zctrl.value = Some(last.val.n)

\* The numbers a toggle is set to: every integer from -1 to 128, and 63.5
ToggleTargets ==
    {Num(n) : n \in -1 .. 128} \cup {Num(63) + Den \div 2}

\* C13 as stated: on the toggle with bounds 0 and 127, set_value(63) gives
\* 0, set_value(64) gives 127, set_value(0) gives 0 and set_value(127)
\* gives 127.
C13_ToggleSnapAt64 ==
    (zctrl.is_toggle /\ ~zctrl.readonly /\ zctrl.is_integer
     /\ zctrl.value_min = Some(0) /\ zctrl.value_max = Some(Num(127))) =>
       \A env \in Envs :
          /\ set_value(zctrl, ArgNum(Num(63)), TRUE, env).self.value = Some(0)
          /\ set_value(zctrl, ArgNum(Num(64)), TRUE, env).self.value
                = Some(Num(127))
          /\ set_value(zctrl, ArgNum(0), TRUE, env).self.value = Some(0)
          /\ set_value(zctrl, ArgNum(Num(127)), TRUE, env).self.value
                = Some(Num(127))

\* C13: on a toggle, a target equal to a bound passes through, a target
\* below value_mid snaps to value_min and any other target to value_max;
\* value_mid is value_min + int(range / 2), which is 63 on the integer
\* toggle with bounds 0 and 127, so there set_value(62) gives 0 and
\* set_value(63) gives 127.
C13_ToggleSnap ==
    (zctrl.is_toggle /\ ~zctrl.readonly) =>
       /\ zctrl.is_integer =>
             zctrl.value_mid =
                Some(Get(zctrl.value_min)
                     + Num((zctrl.value_range \div Den) \div 2))
       /\ (zctrl.is_integer /\ zctrl.value_min = Some(0)
           /\ zctrl.value_max = Some(Num(127))) =>
             /\ zctrl.value_mid = Some(Num(63))
             /\ set_value(zctrl, ArgNum(Num(62)), TRUE,
                          [engine_raises |-> FALSE]).self.value = Some(0)
             /\ set_value(zctrl, ArgNum(Num(63)), TRUE,
                          [engine_raises |-> FALSE]).self.value
                   = Some(Num(127))
       /\ \A n \in ToggleTargets, send \in BOOLEAN, env \in Envs :
             set_value(zctrl, ArgNum(n), send, env).self.value =
                IF n = Get(zctrl.value_min) \/ n = Get(zctrl.value_max)
                THEN Some(n)
                ELSE IF n < Get(zctrl.value_mid) THEN zctrl.value_min
                ELSE zctrl.value_max

\* set_value(63) has switched the toggle with bounds 0 and 127 on
C13_Witness ==
    /\ last.op = "set_value"
    /\ last.val = ArgNum(Num(63))
    /\ "engine" \in last.sent
    /\ zctrl.is_toggle
    /\ zctrl.value_mid = Some(Num(63))
    /\ zctrl.value = Some(Num(127))

\* A tick table that strictly rises or strictly falls
StrictlyMonotonic(ticks) ==
    \/ \A i \in 1 .. Len(ticks) - 1 : ticks[i] < ticks[i + 1]
    \/ \A i \in 1 .. Len(ticks) - 1 : ticks[i] > ticks[i + 1]

\* The index of the tick nearest to v, the earlier one of two equally near
NearestTick(ticks, v) ==
    CHOOSE i \in 1 .. Len(ticks) :
       \A j \in 1 .. Len(ticks) :
          \/ abs(ticks[i] - v) < abs(ticks[j] - v)
          \/ (abs(ticks[i] - v) = abs(ticks[j] - v) /\ i <= j)

C15_LabelRoundTripEveryTable ==
    \A i \in 1 .. Len(zctrl.labels) :
       /\ get_label2value(zctrl, zctrl.labels[i]) = Some(zctrl.ticks[i])
       /\ get_value2label(zctrl, zctrl.ticks[i]) =
             [ret |-> ArgStr(zctrl.labels[i]), raised |-> FALSE]

\* No label of the table occurs twice
DistinctLabels(labels) ==
    \A i, j \in 1 .. Len(labels) : labels[i] = labels[j] => i = j

\* C15: a label that occurs once converts to its tick, a label that occurs
\* again converts to the tick of its last occurrence, and in a strictly
\* monotonic table (ascending, descending or synthesized) every tick
\* converts back to its label.
C15_LabelRoundTrip ==
    \A i \in 1 .. Len(zctrl.labels) :
       /\ DistinctLabels(zctrl.labels) =>
             get_label2value(zctrl, zctrl.labels[i]) = Some(zctrl.ticks[i])
       /\ \E j \in i .. Len(zctrl.labels) :
             /\ zctrl.labels[j] = zctrl.labels[i]
             /\ get_label2value(zctrl, zctrl.labels[i]) = Some(zctrl.ticks[j])
       /\ StrictlyMonotonic(zctrl.ticks) =>
             get_value2label(zctrl, zctrl.ticks[i]) =
                [ret |-> ArgStr(zctrl.labels[i]), raised |-> FALSE]

\* set_value("c") on the descending table has stored the tick of "c", and
\* that tick converts back to "c"
C15_Witness ==
    /\ last.op = "set_value"
    /\ last.val = ArgStr("c")
    /\ zctrl.ticks = <<Num(30), Num(20), Num(10), 0>>
    /\ zctrl.value = Some(Num(10))
    /\ get_value2label(zctrl, Get(zctrl.value)).ret = ArgStr("c")

\* An options dictionary whose range is inverted or whose label and tick
\* lists differ in length
Malformed(options) ==
    \/ /\ options.value_min # None
       /\ options.value_max # None
       /\ Get(options.value_max) < Get(options.value_min)
    \/ /\ options.labels # None
       /\ options.ticks # None
       /\ Len(Get(options.labels)) # Len(Get(options.ticks))

\* C16: set_options with a malformed dictionary (value_max below value_min,
\* or a label list and a tick list of different lengths) raises and leaves
\* the controller as it was.
C16_MalformedRejected ==
    \A options \in ConfigureOptions :
       Malformed(options) =>
          /\ set_options(zctrl, options).raised
          /\ set_options(zctrl, options).self = zctrl

\* A real controller over [0, 10] whose value is 5.0
RealAtFive(self) ==
    /\ ~self.is_integer
    /\ ~self.is_logarithmic
    /\ self.value_min = Some(0)
    /\ self.value_max = Some(Num(10))
    /\ self.value = Some(Num(5))

\* A non-logarithmic controller with a proper range and a value within it
InRange(self) ==
    /\ ~self.is_logarithmic
    /\ self.value # None
    /\ self.value_range > 0
    /\ Get(self.value_min) <= Get(self.value)
    /\ Get(self.value) <= Get(self.value_max)

\* |v - (min + byte * range / 127)| < range / 127, cleared of fractions
WithinOneStep(self, byte) ==
    abs(127 * (Get(self.value) - Get(self.value_min))
          - byte * self.value_range) < self.value_range

C18_WireValue7Bit ==
    ~zctrl.is_logarithmic =>
       /\ get_ctrl_midi_val(zctrl) \in 0 .. 127
       /\ zctrl.value_max = zctrl.value_min => get_ctrl_midi_val(zctrl) = 0

\* The centre byte of a relative convention and the signed step of any
\* other byte, as the specification gives them
CentreByte(m) == IF m = 1 THEN 64 ELSE IF m = 2 THEN 0 ELSE 16

SignedDelta(m, byte) ==
    IF m = 1 THEN byte - 64
    ELSE IF m = 2 THEN (IF byte >= 64 THEN byte - 128 ELSE byte)
    ELSE byte - 16

\* A writable integer controller without ticks that is neither a toggle
\* nor logarithmic
PlainInteger(self) ==
    /\ self.is_integer
    /\ self.ticks = <<>>
    /\ ~self.is_toggle
    /\ ~self.is_logarithmic
    /\ ~self.readonly
    /\ self.value # None

\* C19: in a relative mode the centre byte of the convention leaves the
\* controller as it was and sends nothing; on a controller that is neither
\* a toggle nor logarithmic any other byte does what nudge does with the
\* signed step of the convention, which on an integer range without ticks
\* leaves clamp(value + step, min, max).
C19_RelativeDispatch ==
    mode \in 1 .. 3 =>
       \A byte \in AllBytes, send \in BOOLEAN, env \in Envs :
          LET r == midi_control_change(zctrl, byte, send, elapsed, env)
              n == nudge(zctrl, SignedDelta(mode, byte), send, FALSE, env)
          IN IF byte = CentreByte(mode)
             THEN r.self = zctrl /\ r.sent = {} /\ ~r.raised
             ELSE (~zctrl.is_toggle /\ ~zctrl.is_logarithmic) =>
                     /\ r.raised = n.raised
                     /\ r.sent = n.sent
                     /\ ~r.raised => r.self = n.self
                     /\ PlainInteger(zctrl) =>
                           r.self.value =
                              Some(Clamp(Get(zctrl.value)
                                           + Num(SignedDelta(mode, byte)),
                                         Get(zctrl.value_min),
                                         Get(zctrl.value_max)))

\* Byte 118 in mode Relative2, a step of -10, has taken an integer
\* controller without ticks down to its minimum
C19_Witness ==
    /\ ByteCall
    /\ last.mode = 2
    /\ last.val = ArgNum(118)
    /\ last.sent # {}
    /\ PlainInteger(zctrl)
    /\ zctrl.value = zctrl.value_min

\* min + b * (max - min) / 127, truncated to an integer on an integer range
\* without ticks, then clamped to the bounds
AbsoluteTarget(self, b) ==
    LET linear == Get(self.value_min)
                    + DivT(b * (Get(self.value_max) - Get(self.value_min)),
                           127)
    IN Clamp(IF self.is_integer /\ self.ticks = <<>> THEN int(linear)
             ELSE linear,
             Get(self.value_min), Get(self.value_max))

\* The value byte b leaves on the controller, sent on without a failure
AbsoluteValue(self, b) ==
    midi_control_change(self, b, TRUE, 0,
                        [engine_raises |-> FALSE]).self.value

\* C20: in mode Absolute, on a writable controller that is neither a toggle
\* nor logarithmic, byte b leaves the value min + b * (max - min) / 127
\* (truncated on an integer range without ticks, then clamped): byte 0
\* leaves min, byte 127 leaves max, and a larger byte never leaves a
\* smaller value.
C20_AbsoluteDispatch ==
    (mode = 0 /\ ~zctrl.is_toggle /\ ~zctrl.is_logarithmic
     /\ ~zctrl.readonly) =>
       /\ \A b \in AllBytes, send \in BOOLEAN, env \in Envs :
             LET r == midi_control_change(zctrl, b, send, elapsed, env)
             IN /\ ~r.raised
                /\ r.self.value = Some(AbsoluteTarget(zctrl, b))
       /\ AbsoluteValue(zctrl, 0) = zctrl.value_min
       /\ AbsoluteValue(zctrl, 127) = zctrl.value_max
       /\ \A b \in 0 .. 126 :
             Get(AbsoluteValue(zctrl, b)) <= Get(AbsoluteValue(zctrl, b + 1))

\* Byte 100 in mode Absolute has left 100 * 10 / 127 on the real controller
\* over [0, 10]
C20_Witness ==
    /\ ByteCall
    /\ last.mode = 0
    /\ last.val = ArgNum(100)
    /\ last.sent # {}
    /\ ~zctrl.is_integer
    /\ ~zctrl.is_logarithmic
    /\ zctrl.value = Some(DivT(100 * Num(10), 127))

\* A press in the mode of the controller: a byte of 64 or more in mode
\* Absolute, a positive step in a relative mode
Press(m, byte) == IF m = 0 THEN byte >= 64 ELSE SignedDelta(m, byte) > 0

\* C21: on a writable toggle in mode Absolute or relative, with
\* midi_cc_momentary_switch set a press flips the value to the opposite
\* bound and a release leaves value and is_dirty as they were and sends
\* nothing; with the flag clear the value becomes value_max on a press and
\* value_min otherwise, whatever it was.
C21_MomentaryLatching ==
    (zctrl.is_toggle /\ ~zctrl.readonly /\ zctrl.value # None
     /\ mode \in 0 .. 3) =>
       \A byte \in AllBytes, send \in BOOLEAN, env \in Envs :
          LET r == midi_control_change(zctrl, byte, send, elapsed, env)
          IN (mode = 0 \/ byte # CentreByte(mode)) =>
                /\ ~r.raised
                /\ IF zctrl.midi_cc_momentary_switch
                   THEN IF Press(mode, byte)
                        THEN r.self.value =
                                (IF zctrl.value = zctrl.value_min
                                 THEN zctrl.value_max ELSE zctrl.value_min)
                        ELSE /\ r.self.value = zctrl.value
                             /\ r.self.is_dirty = zctrl.is_dirty
                             /\ r.sent = {}
                   ELSE r.self.value =
                           (IF Press(mode, byte) THEN zctrl.value_max
                            ELSE zctrl.value_min)

\* Byte 100 in mode Absolute, a press, has flipped the momentary toggle
\* from value_max to value_min
C21_Witness ==
    /\ ByteCall
    /\ last.mode = 0
    /\ last.val = ArgNum(100)
    /\ last.sent # {}
    /\ zctrl.is_toggle
    /\ zctrl.midi_cc_momentary_switch
    /\ zctrl.value = zctrl.value_min

\* Controller c with the CC mode and the detector scratch of controller d
WithDetector(c, d) ==
    [c EXCEPT !.midi_cc_mode = d.midi_cc_mode,
              !.midi_cc_mode_detecting = d.midi_cc_mode_detecting,
              !.midi_cc_mode_detecting_count = d.midi_cc_mode_detecting_count,
              !.midi_cc_mode_detecting_zero = d.midi_cc_mode_detecting_zero]

\* C22: a controller of any kind (integer, real, ticked, toggle, momentary,
\* logarithmic, writable or read-only) that has the detector state of this
\* one and receives the same byte at the same time has the same mode,
\* candidate, streak and zero-crossing state afterwards, and has its
\* timestamp set in the same calls.
C22_DetectionIndependent ==
    \A c \in Controllers \cup {set_readonly(k, TRUE) : k \in Controllers},
       val \in StreamBytes \cup {100} :
       LET a == midi_control_change(zctrl, val, TRUE, elapsed,
                                    [engine_raises |-> FALSE])
           b == midi_control_change(WithDetector(c, zctrl), val, TRUE,
                                    elapsed, [engine_raises |-> FALSE])
       IN /\ b.self.midi_cc_mode = a.self.midi_cc_mode
          /\ Scratch(b.self) = Scratch(a.self)
          /\ b.ts_set = a.ts_set

\* The detector has observed a byte while its streak for Relative1 was
\* under way, after some time had passed
C22_Witness ==
    /\ ByteCall
    /\ last.mode = -1
    /\ last.gap > 0
    /\ candidate = 1
    /\ streak >= 3
    /\ mode = -1

\* C23: set_value, nudge and midi_control_change called with send = False
\* invoke no sink: no engine send, no OSC send, no MIDI CC send and no MIDI
\* feedback send.
C23_AnnounceFlagHonoured ==
    \A env \in Envs :
       /\ \A val \in SetValueArgs :
             set_value(zctrl, val, FALSE, env).sent = {}
       /\ \A val \in (-MaxNudge) .. MaxNudge, fine \in BOOLEAN :
             nudge(zctrl, val, FALSE, fine, env).sent = {}
       /\ \A val \in EdgeBytes \cup StepBytes :
             midi_control_change(zctrl, val, FALSE, elapsed, env).sent = {}

C25_TickSynthesisDefault127 ==
    \A options \in LabelOptions :
       LET self == Construct(zctrl.engine, options)
           n == Len(Get(options.labels))
           lo == Get(OrElse(options.value_min, Some(0)))
           hi == Get(OrElse(options.value_max, Some(Num(127))))
       IN /\ Len(self.ticks) = n
          /\ \A i \in 1 .. n :
                self.ticks[i] =
                   IF self.is_integer
                   THEN lo + int(DivT((i - 1) * (hi - lo), n - 1))
                   ELSE lo + DivT((i - 1) * (hi - lo), n - 1)
          /\ self.ticks[1] = lo
          /\ self.ticks[n] = hi
          /\ n = 2 => self.is_toggle

\* C25: n >= 2 labels without ticks are given the ticks
\* min + i * (max - min) / (n - 1), truncated toward zero on an integer
\* range, where an unset min is 0 and an unset max is 127 for two labels
\* and n - 1 for more; ticks[0] is min and ticks[n-1] is max; two labels
\* make a toggle.
C25_TickSynthesis ==
    \A options \in LabelOptions :
       LET self == Construct(zctrl.engine, options)
           n == Len(Get(options.labels))
           lo == Get(OrElse(options.value_min, Some(0)))
           hi == Get(OrElse(options.value_max,
                            Some(IF n = 2 THEN Num(127) ELSE Num(n - 1))))
       IN /\ Len(self.ticks) = n
          /\ \A i \in 1 .. n :
                self.ticks[i] =
                   IF self.is_integer
                   THEN lo + int(DivT((i - 1) * (hi - lo), n - 1))
                   ELSE lo + DivT((i - 1) * (hi - lo), n - 1)
          /\ self.ticks[1] = lo
          /\ self.ticks[n] = hi
          /\ n = 2 => self.is_toggle

\* A nudge has moved a controller of three labels and no bounds, whose
\* ticks were synthesized as 0, 1, 2, to its last tick
C25_Witness ==
    /\ last.op = "nudge"
    /\ last.sent # {}
    /\ zctrl.labels = <<"a", "b", "c">>
    /\ zctrl.ticks = <<0, Num(1), Num(2)>>
    /\ zctrl.value = Some(Num(2))

\* C26: a controller with a tick table has value_min and value_max equal to
\* the smaller and the larger of its first and last tick, and
\* range_reversed exactly when the first tick is above the last.
C26_TableOrientation ==
    (zctrl.ticks # <<>> /\ ~last.raised) =>
       LET first == zctrl.ticks[1]
           final == zctrl.ticks[Len(zctrl.ticks)]
       IN /\ zctrl.value_min = Some(IF first <= final THEN first ELSE final)
          /\ zctrl.value_max = Some(IF first <= final THEN final ELSE first)
          /\ zctrl.range_reversed = (first > final)

\* C27: after every set_options call that returns, value_mid is
\* value_min + (value_max - value_min) / 2 for the bounds of the
\* controller, truncated to an integer on an integer controller.
C27_MidpointTracksRange ==
    ~last.raised =>
       zctrl.value_mid =
          Some(Get(zctrl.value_min)
                 + (IF zctrl.is_integer
                    THEN int(DivT(Get(zctrl.value_max) - Get(zctrl.value_min), 2))
                    ELSE DivT(Get(zctrl.value_max) - Get(zctrl.value_min), 2)))

\* The steps of the candidate's band, the centre byte excluded, while the
\* mode is Unknown and the zero-crossing state is unset
InteriorSteps ==
    IF mode = -1 /\ candidate \in 1 .. 3
       /\ zctrl.midi_cc_mode_detecting_zero = 0
    THEN {val \in AllBytes :
             InBand(candidate, val) /\ val # CentreByte(candidate)}
    ELSE {}

\* C28 as stated: with the zero-crossing state unset, a step of the
\* candidate's band that is not next to the centre sets the streak to 0,
\* and one next to the centre increments it by 1.
C28_InteriorByteResetsStreak ==
    \A val \in InteriorSteps :
       LET r == midi_control_change(zctrl, val, TRUE, elapsed,
                                    [engine_raises |-> FALSE])
       IN r.self.midi_cc_mode_detecting_count =
             IF Adjacent(candidate, val) THEN streak + 1 ELSE 0

\* C28: with the zero-crossing state unset, a step of the candidate's band
\* commits the candidate when the streak, dropped to 0 after a timeout, has
\* reached the threshold; below the threshold a step next to the centre
\* increments the streak by 1 and any other step leaves it as it is; the
\* candidate and the zero-crossing state stay.
C28_InteriorByteKeepsStreak ==
    \A val \in InteriorSteps, gap \in Gaps :
       LET r == midi_control_change(zctrl, val, TRUE, gap,
                                    [engine_raises |-> FALSE])
           base == IF gap > MIDI_CC_MODE_DETECT_TIMEOUT THEN 0 ELSE streak
       IN /\ Scratch(r.self) =
                <<candidate,
                  IF base < MIDI_CC_MODE_DETECT_STEPS /\ Adjacent(candidate, val)
                  THEN base + 1 ELSE base,
                  0>>
          /\ r.self.midi_cc_mode =
                IF base >= MIDI_CC_MODE_DETECT_STEPS THEN candidate ELSE -1

\* Byte 55, a step of Relative1 that is not next to the centre, has come
\* within the timeout while the streak was under way and the zero-crossing
\* state unset, and the streak is what it was
C28_Witness ==
    /\ ByteCall
    /\ last.mode = -1
    /\ last.val = ArgNum(55)
    /\ last.gap <= MIDI_CC_MODE_DETECT_TIMEOUT
    /\ last.count >= 2
    /\ candidate = 1
    /\ zctrl.midi_cc_mode_detecting_zero = 0
    /\ streak = last.count
    /\ mode = -1

\* The bytes of a relative band m other than the current candidate, while
\* the mode is Unknown
SwitchingBytes(m) ==
    IF mode = -1 /\ candidate # m
    THEN {val \in AllBytes : InBand(m, val)}
    ELSE {}

\* C29: while the mode is Unknown, a byte of a relative band other than the
\* current candidate makes that band the candidate, sets the streak to 0,
\* seeds the zero-crossing state with 1 when the byte is the band's centre
\* and with 0 otherwise, and leaves the mode Unknown, whatever the gap.
C29_CandidateSwitch ==
    \A m \in 1 .. 3 : \A val \in SwitchingBytes(m), gap \in Gaps :
       LET r == midi_control_change(zctrl, val, TRUE, gap,
                                    [engine_raises |-> FALSE])
       IN /\ Scratch(r.self) =
                <<m, 0, IF val = CentreByte(m) THEN 1 ELSE 0>>
          /\ r.self.midi_cc_mode = -1

\* Byte 17 of Relative3 has come while a streak of another candidate was
\* under way (within Relative3 a byte next to the centre never leaves the
\* streak at 0 with the zero-crossing state unset): Relative3 is the
\* candidate, the streak is 0 and the zero-crossing state is unset
C29_Witness ==
    /\ ByteCall
    /\ last.mode = -1
    /\ last.val = ArgNum(17)
    /\ last.count >= 2
    /\ Scratch(zctrl) = <<3, 0, 0>>
    /\ mode = -1

\* The controllers the committing byte is tried on: the controller itself,
\* and an integer one on [0, 127] and a real one on [0, 10] whose detectors
\* are where the controller's detector is
CommitControllers ==
    {zctrl,
     WithDetector(Construct(FALSE, WithMidi(NoOptions)), zctrl),
     WithDetector(Construct(TRUE, WithOsc(RealOptions)), zctrl)}

\* C30: the byte on which the detector commits a mode is dispatched under
\* that mode within the same call: a byte that commits Absolute sets the
\* value to its absolute target (byte 100, which always commits Absolute,
\* yields 100 on the integer range [0, 127]), and a step that commits a
\* relative mode changes the value as a nudge by the signed delta of that
\* mode does, which on a plain integer controller is the value plus the
\* delta, clamped to the range.
C30_CommittingByteDispatched ==
    mode = -1 =>
       \A c \in CommitControllers, val \in EdgeBytes, gap \in Gaps :
          LET d == midi_cc_mode_detect(c, val, gap)
              m == d.midi_cc_mode
              r == midi_control_change(c, val, TRUE, gap,
                                       [engine_raises |-> FALSE])
          IN /\ r.self.midi_cc_mode = m
             /\ m = 0 =>
                   /\ r.self.value = Some(AbsoluteTarget(c, val))
                   /\ (val = 100 /\ c.value_max = Some(Num(127))) =>
                         r.self.value = Some(Num(100))
             /\ val = 100 => m = 0
             /\ (m \in 1 .. 3 /\ val # CentreByte(m)) =>
                   /\ r.self.value =
                         nudge(d, SignedDelta(m, val), TRUE, FALSE,
                               [engine_raises |-> FALSE]).self.value
                   /\ PlainInteger(c) =>
                         r.self.value =
                            Some(Clamp(Get(c.value) + Num(SignedDelta(m, val)),
                                       Get(c.value_min), Get(c.value_max)))

\* Byte 65 has committed Relative1 in the call that observed it, and the
\* value of the switch, 0 before the call, is 1
C30_Witness ==
    /\ ByteCall
    /\ last.mode = -1
    /\ last.val = ArgNum(65)
    /\ mode = 1
    /\ zctrl.value = Some(Num(1))
    /\ last.count >= MIDI_CC_MODE_DETECT_STEPS

\* The controller, and the controllers of every kind with their detectors
\* where the controller's detector is
EveryKind == {zctrl} \cup {WithDetector(c, zctrl) : c \in Controllers}

\* C31: a midi_control_change call that ends with the mode still Unknown
\* leaves value and is_dirty as they were and sends nothing, on a controller
\* of any kind; a fresh controller whose mode is Unknown after the bytes
\* observed so far still has the value and is_dirty it was constructed with;
\* Absolute, once committed, stays under midi_control_change; and no relative
\* mode is committed within the first 9 bytes, so that the first 9 bytes of
\* a stream that ends up relative have no effect.
C31_DetectionDoesNotMove ==
    /\ mode = -1 =>
          /\ \A c \in EveryKind, val \in FreshBytes, env \in Envs :
                LET r == midi_control_change(c, val, TRUE, elapsed, env)
                IN r.self.midi_cc_mode = -1 =>
                      /\ r.self.value = c.value
                      /\ r.self.is_dirty = c.is_dirty
                      /\ r.sent = {}
                      /\ ~r.raised
          /\ \A c \in DetectControllers :
                /\ zctrl.value = c.value
                /\ zctrl.is_dirty = c.is_dirty
          /\ ByteCall => last.sent = {}
    /\ mode = 0 =>
          \A val \in FreshBytes :
             midi_control_change(zctrl, val, TRUE, elapsed,
                                 [engine_raises |-> FALSE]).self.midi_cc_mode = 0
    /\ (fed <= MIDI_CC_MODE_DETECT_STEPS + 1) => mode \in {-1, 0}

\* Nine bytes of Relative1 have been observed by a fresh controller, the
\* streak has reached the threshold, the mode is still Unknown and the value
\* is the constructed one
C31_Witness ==
    /\ ByteCall
    /\ fed = MIDI_CC_MODE_DETECT_STEPS + 1
    /\ mode = -1
    /\ Scratch(zctrl) = <<1, MIDI_CC_MODE_DETECT_STEPS, 1>>
    /\ run.len = fed
    /\ zctrl.value = Some(0)

\* C32: a relative mode is committed only after the centre byte of its
\* convention was observed among the bytes of the streak: in the state a
\* committing call leaves, the zero-crossing state, unset when the candidate
\* is taken on a step and set only by the centre byte, is set, or the
\* committing byte is the centre byte itself.
C32_CommitNeedsCentre ==
    (ByteCall /\ last.mode = -1 /\ mode \in 1 .. 3) =>
       \/ zctrl.midi_cc_mode_detecting_zero # 0
       \/ last.val = ArgNum(CentreByte(mode))

\* C33: under a stream of the documented Relative2 convention the mode is
\* Unknown or Relative2, never Absolute, Relative1 or Relative3.
C33_Relative2StreamStays ==
    mode \in {-1, 2}

\* The last call observed a byte and committed a relative mode
RelativeCommit == ByteCall /\ last.mode = -1 /\ mode \in 1 .. 3

\* C34: from a fresh controller no relative mode is committed before the
\* 10th observed byte; the byte that commits one is of the band of that
\* mode and ends a run of at least 10 consecutive bytes of that band, of
\* which the last 8 each came within the timeout of the byte before; and a
\* byte that ends a run of fewer than 10 bytes of one band leaves the mode
\* Unknown.
C34_MinimumEvidence ==
    /\ mode \in 1 .. 3 => fed >= MIDI_CC_MODE_DETECT_STEPS + 2
    /\ RelativeCommit =>
          /\ run.band = mode
          /\ run.len >= MIDI_CC_MODE_DETECT_STEPS + 2
          /\ run.timely >= MIDI_CC_MODE_DETECT_STEPS
          /\ last.count >= MIDI_CC_MODE_DETECT_STEPS
          /\ last.gap <= MIDI_CC_MODE_DETECT_TIMEOUT
    /\ (ByteCall /\ last.mode = -1 /\ run.band # 0
        /\ run.len < MIDI_CC_MODE_DETECT_STEPS + 2) => mode = -1

\* The 10th byte of Relative1 in a row, the first of them followed by a gap
\* above the timeout, has committed Relative1
C34_Witness ==
    /\ RelativeCommit
    /\ mode = 1
    /\ fed = MIDI_CC_MODE_DETECT_STEPS + 2
    /\ run.len = fed
    /\ run.timely = MIDI_CC_MODE_DETECT_STEPS

\* C35: in every state a fresh controller reaches through
\* midi_control_change the streak is between 0 and the threshold, the
\* zero-crossing state is -1, 0 or 1, the mode is -1, 0, 1, 2 or 3, a
\* committed relative mode is the candidate, and under a committed Absolute
\* the candidate is 0.
C35_DetectorState ==
    /\ streak \in 0 .. MIDI_CC_MODE_DETECT_STEPS
    /\ zctrl.midi_cc_mode_detecting_zero \in {-1, 0, 1}
    /\ mode \in {-1, 0, 1, 2, 3}
    /\ candidate \in 0 .. 3
    /\ mode > 0 => mode = candidate
    /\ mode = 0 => candidate = 0

\* A byte of no band has come during a streak and committed Absolute, and
\* the candidate of the streak is gone
C35_Witness ==
    /\ ByteCall
    /\ last.mode = -1
    /\ last.count = MIDI_CC_MODE_DETECT_STEPS
    /\ mode = 0
    /\ candidate = 0

\* C36: after midi_cc_mode_reset() or midi_cc_mode_set(-1) on a controller
\* whose mode was committed, the next byte, whatever it is and whenever it
\* comes, leaves the mode that it leaves on a freshly constructed
\* controller.
C36_RedetectionFromScratch ==
    (ModeCall /\ last.mode # -1 /\ mode = -1) =>
       \A c \in DetectControllers, val \in AllBytes, gap \in Gaps :
          midi_control_change(zctrl, val, TRUE, gap,
                              [engine_raises |-> FALSE]).self.midi_cc_mode
             = midi_control_change(c, val, TRUE, gap,
                                   [engine_raises |-> FALSE]).self.midi_cc_mode

\* C37: in a relative mode, on a controller that is not a toggle, whose
\* range is not reversed and whose value is positive and within the range,
\* a byte of a positive delta does not decrease the value and a byte of a
\* negative delta does not increase it.
C37_TurnDirection ==
    (/\ mode \in 1 .. 3
     /\ ~zctrl.is_toggle
     /\ ~zctrl.range_reversed
     /\ zctrl.value # None
     /\ Get(zctrl.value) > 0
     /\ Get(zctrl.value_min) <= Get(zctrl.value)
     /\ Get(zctrl.value) <= Get(zctrl.value_max)) =>
       \A byte \in AllBytes \ {CentreByte(mode)} :
          LET r == midi_control_change(zctrl, byte, TRUE, elapsed,
                                       [engine_raises |-> FALSE])
          IN IF SignedDelta(mode, byte) > 0
             THEN Get(r.self.value) >= Get(zctrl.value)
             ELSE Get(r.self.value) <= Get(zctrl.value)

\* The value is one of the ticks
OnTick(self) ==
    /\ self.value # None
    /\ \E i \in 1 .. Len(self.ticks) : self.ticks[i] = Get(self.value)

\* C38: on a controller with a tick table that is not a toggle and whose
\* value is a tick, the value is a tick again after set_value by any of its
\* labels, after nudge, after reset_value, and after midi_control_change
\* with any byte in Absolute or a relative mode.
C38_StaysOnTicks ==
    (zctrl.ticks # <<>> /\ ~zctrl.is_toggle /\ OnTick(zctrl)) =>
       \A env \in Envs :
          /\ \A i \in 1 .. Len(zctrl.labels) :
                OnTick(set_value(zctrl, ArgStr(zctrl.labels[i]), TRUE, env).self)
          /\ \A val \in -MaxNudge .. MaxNudge :
                OnTick(nudge(zctrl, val, TRUE, FALSE, env).self)
          /\ OnTick(reset_value(zctrl, env).self)
          /\ mode \in 0 .. 3 =>
                \A byte \in AllBytes :
                   OnTick(midi_control_change(zctrl, byte, TRUE, elapsed,
                                              env).self)

\* The controller after n calls of nudge(d)
RECURSIVE NudgeTimes(_, _, _)
NudgeTimes(self, d, n) ==
    IF n = 0 THEN self
    ELSE NudgeTimes(nudge(self, d, TRUE, FALSE,
                          [engine_raises |-> FALSE]).self, d, n - 1)

\* C39: on a controller with a tick table, len(ticks) - 1 calls of nudge(+1)
\* from any reachable value reach the last tick and as many calls of
\* nudge(-1) reach the first tick, and no nudge(+1) moves the index back.
C39_NudgeReachesEnds ==
    (zctrl.ticks # <<>> /\ zctrl.value # None /\ ~zctrl.readonly) =>
       /\ NudgeTimes(zctrl, 1, Len(zctrl.ticks) - 1).value =
             Some(zctrl.ticks[Len(zctrl.ticks)])
       /\ NudgeTimes(zctrl, -1, Len(zctrl.ticks) - 1).value =
             Some(zctrl.ticks[1])
       /\ Get(get_value2index(NudgeTimes(zctrl, 1, 1)))
             >= Get(get_value2index(zctrl))

====
